---- MODULE Spec2Model ----
(***************************************************************************)
(* Model of the news curation backend (backend/app/main.py and its         *)
(* services): the curate_news handler from the request to the response,    *)
(* its selection policy, and the per-user curated-articles store.          *)
(*                                                                         *)
(* Relevance scores are floats in the source; here they are integers in    *)
(* tenths (0.0 -> 0, 1.0 -> 10).  An article id is a fresh uuid4 in the    *)
(* source; here it is the value of a counter of the uuids generated.  The  *)
(* url of an article stands for its content: the provider's k-th article   *)
(* has url k.                                                              *)
(***************************************************************************)
EXTENDS Integers, Sequences, FiniteSets, TLC

VARIABLES
    pc,                 \* position of the curate_news handler
    exc,                \* the exception raised inside the handler's try block
    response,           \* what the handler gave the caller
    authorization,      \* the Authorization header of the request
    user_id,            \* user resolved from the session token
    limit,              \* request parameter `limit`
    topic,              \* request parameter `topic`
    preferences,        \* the user's row of public.user_preferences
    query_variations,   \* the search queries to try (main.py:997-1005)
    articles,           \* raw articles from the news provider (main.py:1010)
    news_calls,         \* history: the calls made to the news provider
    valid_articles,     \* pre-filtered raw articles (main.py:1067)
    batch_start,        \* loop variable i of the scoring loop (main.py:1137)
    outcomes,           \* history: what the scorer did for each valid article
    in_flight,          \* calls submitted to asyncio.gather that are still running
    returned,           \* what the calls of the awaited gather have delivered
    analyzed_articles,  \* list of scored articles (main.py:1081)
    curated_articles,   \* list chosen by the selection policy (main.py:1219)
    final_articles,     \* stripped list that is enriched, stored and returned
    image_start,        \* loop variable i of the image loop (main.py:1321)
    image_results,      \* article id -> image url found (main.py:1319)
    annotations,        \* whether the interpreter evaluates annotations at `def`
    stored_before,      \* history: the table when the request arrived
    op,                 \* the operation (handler) the request is for
    payload,            \* which of the request's fields are present
    external_calls,     \* history: the collaborators the handler has called
    prepared,           \* prepare_articles: loop position and counters
    extracted,          \* the last call of extract_article_with_tools
    table,              \* rows of public.user_curated_articles, in insertion order
    clients,            \* the database clients (server processes) that are running
    rp,                 \* per client: its call of _replace_user_curated_articles
    loaded,             \* result of the last _load_user_curated_articles
    uuidCount,          \* number of uuids generated so far
    calls               \* history: the store-replace calls made so far

ctlVars == <<pc, exc, response>>
opVars == <<op, payload, external_calls, prepared, extracted>>
reqVars == <<authorization, user_id, limit, topic, preferences, annotations, stored_before,
             opVars>>
srcVars == <<query_variations, articles, news_calls, valid_articles>>
scoreVars == <<batch_start, outcomes, in_flight, returned>>
listVars == <<analyzed_articles, curated_articles, final_articles>>
imageVars == <<image_start, image_results>>
curateVars == <<ctlVars, reqVars, srcVars, scoreVars, listVars, imageVars>>
storeVars == <<table, clients, rp, loaded, uuidCount, calls>>
vars == <<pc, exc, response, authorization, user_id, limit, topic, preferences,
          query_variations, articles, news_calls, valid_articles, batch_start,
          outcomes, in_flight, returned, analyzed_articles, curated_articles,
          final_articles,
          image_start, image_results, annotations, stored_before,
          op, payload, external_calls, prepared, extracted,
          table, clients, rp, loaded, uuidCount, calls>>

----------------------------------------------------------------------------
(* Bounds of the model *)

\* largest number of articles the news provider returns to one call
MaxRaw == 2

\* largest number of scored articles drawn for the selection policy
MaxScored == 6

\* largest number of articles of one store-replace call of the store specifications
MaxSet == 2

\* number of store-replace calls made in the store specifications
MaxCalls == 2

\* `limit` values of a request: below, inside and above the clamp interval
Limits == {3, 6, 12}

\* relevance scores (tenths) the scorer gives in the selection specification
SelectScores == {3, 8}

\* answers of the LLM for an article: relevance score (tenths) and flag
LlmAnswers == {[score |-> 8, selected |-> TRUE], [score |-> 3, selected |-> FALSE]}

\* numbers of rows of user u1 that an earlier run has left in the store
PriorSizes == {0, 2}

\* largest number of raw articles drawn for the pre-filter
MaxCandidates == 6

----------------------------------------------------------------------------
(* Program constants *)

MinLimit == 5
MaxLimit == 10
TitleOnlyCap == 5
BatchSize == 10
ImageBatchSize == 5

\* topics for which curate_news falls back to the US top headlines
FallbackTopics == {"new_york", "san_francisco"}

----------------------------------------------------------------------------
(* Helpers *)

Min(a, b) == IF a <= b THEN a ELSE b
Max(a, b) == IF a >= b THEN a ELSE b

Range(s) == {s[i] : i \in 1..Len(s)}

\* Python slice s[:n]
Take(s, n) == SubSeq(s, 1, Min(n, Len(s)))

\* Python slice s[i:i+n]
Slice(s, i, n) == SubSeq(s, i + 1, Min(i + n, Len(s)))

Ids(s) == {s[i].id : i \in 1..Len(s)}

NoResponse == [kind |-> "none", status |-> 0, body |-> <<>>]
Returned(body) == [kind |-> "return", status |-> 200, body |-> body]
ErrorResponse(status) == [kind |-> "error", status |-> status, body |-> <<>>]

NoException == [type |-> "none", status |-> 0]
HTTPException(status) == [type |-> "HTTPException", status |-> status]
ValueError == [type |-> "ValueError", status |-> 0]
NameError == [type |-> "NameError", status |-> 0]

\* an article in the JSON shape of the NewsArticle model.  "none" stands for
\* None; the provider's articles carry no author, date or category here.
NewsArticle(id, url, title, summary, content, image_url) ==
    [id |-> id, title |-> title, summary |-> summary, content |-> content,
     author |-> "none", source |-> "source", image_url |-> image_url, url |-> url,
     published_at |-> "none", category |-> "none"]

----------------------------------------------------------------------------
(* Selection policy of curate_news *)

\* the sort without reverse=True: lowest score first
RECURSIVE SortAscending(_)
SortAscending(s) ==
    IF s = <<>> THEN <<>>
    ELSE LET r == SortAscending(SubSeq(s, 1, Len(s) - 1))
             a == s[Len(s)]
             k == Cardinality({i \in 1..Len(r) : r[i]._relevance_score <= a._relevance_score})
         IN SubSeq(r, 1, k) \o <<a>> \o SubSeq(r, k + 1, Len(r))

\* analyzed_articles.sort(key=lambda x: x.get("_relevance_score", 0.0),
\* reverse=True): highest score first; the sort is stable, so articles of
\* equal score keep their order.  The article at position i goes to the
\* position after all those that precede it in the result.
SortByRelevance(s) ==
    LET Precedes(j, i) ==
            \/ s[j]._relevance_score > s[i]._relevance_score
            \/ s[j]._relevance_score = s[i]._relevance_score /\ j < i
        Position(i) == Cardinality({j \in 1..Len(s) : Precedes(j, i)}) + 1
    IN [k \in 1..Len(s) |-> s[CHOOSE i \in 1..Len(s) : Position(i) = k]]

\* actual_limit = max(5, min(10, limit))
ActualLimit(l) == Max(MinLimit, Min(MaxLimit, l))

\* target_count = min(actual_limit, len(analyzed_articles))
TargetCount(l, analyzed) == Min(ActualLimit(l), Len(analyzed))

IsSelected(a) == a._is_selected

\* selected_articles = [a for a in analyzed_articles if a.get("_is_selected")]
SelectedArticles(analyzed) == SelectSeq(analyzed, IsSelected)

\* the fill loop without the used_ids test
RECURSIVE FillLoopNoSkip(_, _, _, _)
FillLoopNoSkip(curated, used_ids, rest, target) ==
    IF rest = <<>> THEN curated
    ELSE LET next == Append(curated, Head(rest))
         IN IF Len(next) >= target
            THEN next
            ELSE FillLoopNoSkip(next, used_ids, Tail(rest), target)

\* The fill loop: walks analyzed (sorted) in order, skips an article whose id
\* is in used_ids -- the test is `if used_ids and article_id in used_ids`, so
\* nothing is skipped while used_ids is empty --, appends the others and stops
\* once target_count is reached.
RECURSIVE FillLoop(_, _, _, _)
FillLoop(curated, used_ids, rest, target) ==
    IF rest = <<>> THEN curated
    ELSE LET article == Head(rest)
         IN IF used_ids # {} /\ article.id \in used_ids
            THEN FillLoop(curated, used_ids, Tail(rest), target)
            ELSE LET next == Append(curated, article)
                 IN IF Len(next) >= target
                    THEN next
                    ELSE FillLoop(next, used_ids \cup {article.id}, Tail(rest), target)

\* curated_articles as computed from the sorted analyzed_articles
Curate(l, analyzed) ==
    LET target == TargetCount(l, analyzed)
        picked == Take(SelectedArticles(analyzed), target)
    IN IF target = 0 THEN <<>>
       ELSE IF Len(picked) < target /\ analyzed # <<>>
            THEN FillLoop(picked, Ids(picked), analyzed, target)
            ELSE picked

\* the article passed on as it is
KeepAllFields(a) == a

\* final_article = {"id": article.get("id"), "title": article.get("title", "")
\* or "Untitled", ..., "source": article.get("source") or "Unknown", ...}: the
\* ten fields of the NewsArticle model and no other
StripArticle(a) ==
    [id |-> a.id,
     title |-> IF a.title \in {"", "none"} THEN "Untitled" ELSE a.title,
     summary |-> a.summary,
     content |-> a.content,
     author |-> a.author,
     source |-> IF a.source \in {"", "none"} THEN "Unknown" ELSE a.source,
     image_url |-> a.image_url,
     url |-> a.url,
     published_at |-> a.published_at,
     category |-> a.category]

StripFields(s) == [i \in 1..Len(s) |-> StripArticle(s[i])]

----------------------------------------------------------------------------
(* The curated-articles store.  get_db opens the connection with            *)
(* autocommit=True, so every statement is its own transaction: the DELETE   *)
(* and each INSERT of a store-replace take effect, and are visible to every *)
(* other connection, one by one.  A row's created_at (DEFAULT now()) grows  *)
(* with the order of the INSERT statements, which is the order of `table`.  *)

Users == {"u1", "u2"}
ClientIds == {"api", "w1", "w2"}

InReplace(c) == rp[c].pc \in {"delete", "insert"}

IdleCall == [pc |-> "idle", user_id |-> "u1", articles |-> <<>>, i |-> 0, call |-> 0]

UserRows(tbl, u) == SelectSeq(tbl, LAMBDA row : row.user_id = u)

RowIds(tbl, u) == Ids(UserRows(tbl, u))

\* a replace whose DELETE removes nothing
DeleteNothing(tbl, u) == tbl

\* DELETE FROM public.user_curated_articles WHERE user_id = %s
DeleteUserRows(tbl, u) == SelectSeq(tbl, LAMBDA row : row.user_id # u)

\* INSERT INTO public.user_curated_articles (...) VALUES (...)
InsertRow(tbl, u, article) ==
    Append(tbl, [id |-> article.id, user_id |-> u,
                 title |-> IF article.title \in {"", "none"} THEN "Untitled"
                           ELSE article.title,
                 summary |-> article.summary, content |-> article.content,
                 author |-> article.author, source |-> article.source,
                 image_url |-> article.image_url, url |-> article.url,
                 published_at |-> article.published_at,
                 category |-> article.category])

\* id uuid PRIMARY KEY: an INSERT of an id that is in the table raises
ViolatesPrimaryKey(tbl, article) == \E k \in 1..Len(tbl) : tbl[k].id = article.id

Reverse(s) == [k \in 1..Len(s) |-> s[Len(s) + 1 - k]]

\* the rows a SELECT without its WHERE clause gives
AllRows(tbl, u) == tbl

\* SELECT ... WHERE user_id = %s
SelectUserRows(tbl, u) == UserRows(tbl, u)

\* SELECT ... WHERE user_id = %s ORDER BY created_at DESC, then one dict per row
LoadUserArticles(tbl, u) ==
    LET rows == Reverse(SelectUserRows(tbl, u))
    IN [k \in 1..Len(rows) |->
          [id |-> rows[k].id,
           title |-> IF rows[k].title \in {"", "none"} THEN "Untitled" ELSE rows[k].title,
           summary |-> rows[k].summary, content |-> rows[k].content,
           author |-> rows[k].author, source |-> rows[k].source,
           image_url |-> rows[k].image_url, url |-> rows[k].url,
           published_at |-> rows[k].published_at, category |-> rows[k].category]]

\* the calls of store-replace for user u that have started and not ended
Running(u) ==
    {k \in 1..Len(calls) : calls[k].user_id = u /\ calls[k].status = "running"}

\* entry of _replace_user_curated_articles(conn, user_id, articles)
BeginReplace(c, u, arts) ==
    /\ rp' = [rp EXCEPT ![c] = [pc |-> "delete", user_id |-> u, articles |-> arts,
                                i |-> 1, call |-> Len(calls) + 1]]
    /\ calls' = Append(calls, [client |-> c, user_id |-> u, ids |-> Ids(arts),
                               before |-> RowIds(table, u),
                               overlapped |-> Running(u) # {},
                               status |-> "running"])

EndCall(k, status) == [calls EXCEPT ![k].status = status]

\* the DELETE statement, then `if not articles: return`
ReplaceDelete(c) ==
    /\ c \in clients
    /\ rp[c].pc = "delete"
    /\ table' = DeleteUserRows(table, rp[c].user_id)
    /\ IF rp[c].articles = <<>>
       THEN /\ rp' = [rp EXCEPT ![c].pc = "returned"]
            /\ calls' = EndCall(rp[c].call, "returned")
       ELSE /\ rp' = [rp EXCEPT ![c].pc = "insert"]
            /\ UNCHANGED calls
    /\ UNCHANGED <<clients, loaded, uuidCount>>
    /\ UNCHANGED curateVars

\* one pass of `for article in articles`: the INSERT statement; a primary-key
\* conflict raises out of the function
ReplaceInsert(c) ==
    /\ c \in clients
    /\ rp[c].pc = "insert"
    /\ LET article == rp[c].articles[rp[c].i]
       IN IF ViolatesPrimaryKey(table, article)
          THEN /\ rp' = [rp EXCEPT ![c].pc = "raised"]
               /\ calls' = EndCall(rp[c].call, "raised")
               /\ UNCHANGED table
          ELSE /\ table' = InsertRow(table, rp[c].user_id, article)
               /\ IF rp[c].i = Len(rp[c].articles)
                  THEN /\ rp' = [rp EXCEPT ![c].pc = "returned"]
                       /\ calls' = EndCall(rp[c].call, "returned")
                  ELSE /\ rp' = [rp EXCEPT ![c].i = @ + 1]
                       /\ UNCHANGED calls
    /\ UNCHANGED <<clients, loaded, uuidCount>>
    /\ UNCHANGED curateVars

\* a statement fails (connection lost, server error): cur.execute raises and
\* the exception leaves the function; what earlier statements did stays
ReplaceStatementError(c) ==
    /\ c \in clients
    /\ rp[c].pc \in {"delete", "insert"}
    /\ rp' = [rp EXCEPT ![c].pc = "raised"]
    /\ calls' = EndCall(rp[c].call, "raised")
    /\ UNCHANGED <<table, clients, loaded, uuidCount>>
    /\ UNCHANGED curateVars

\* _load_user_curated_articles(conn, user_id): one SELECT.  The functions of
\* the store are synchronous, so a server process loads only while it is not
\* inside a store-replace of its own.
Load(c, u) ==
    /\ c \in clients
    /\ ~InReplace(c)
    /\ loaded' = [user_id |-> u, articles |-> LoadUserArticles(table, u),
                  during |-> Running(u)]
    /\ UNCHANGED <<table, clients, rp, uuidCount, calls>>
    /\ UNCHANGED curateVars

NotLoaded == [user_id |-> "u1", articles |-> <<>>, during |-> {0}]

StoreInit(cs) ==
    /\ table = <<>>
    /\ clients = cs
    /\ rp = [c \in ClientIds |-> IdleCall]
    /\ loaded = NotLoaded
    /\ uuidCount = 0
    /\ calls = <<>>

----------------------------------------------------------------------------
(* Store specifications: server processes that have reached the persist     *)
(* step of curate_news with a list of freshly identified articles, and      *)
(* requests that load the stored set.  SpecStoreSeq has one server process, *)
(* SpecStore has two.                                                       *)

\* articles of a call: ids uuidCount+1 .. uuidCount+n
FreshArticles(n) ==
    [k \in 1..n |->
        NewsArticle(uuidCount + k, uuidCount + k, "title", "description", "content", "orig")]

ReplaceCall(c) ==
    /\ c \in clients
    /\ rp[c].pc \in {"idle", "returned", "raised"}
    /\ Len(calls) < MaxCalls
    /\ \E u \in Users : \E n \in 0..MaxSet :
          /\ BeginReplace(c, u, FreshArticles(n))
          /\ uuidCount' = uuidCount + n
    /\ UNCHANGED <<table, clients, loaded>>
    /\ UNCHANGED curateVars

\* extract_article_with_tools has not run
NotExtracted ==
    [outcome |-> [first |-> "none", fetch |-> "none", second |-> "none"],
     calls |-> <<>>,
     raised |-> FALSE,
     result |-> [title |-> "", summary |-> "", content |-> "", image_url |-> "",
                 source_name |-> ""]]

\* prepare_articles has not run
NotPrepared == [i |-> 0, total |-> 0, processed |-> 0, failed |-> 0]

\* no asyncio.gather has been started: per scoring group and per image group
\* the number of calls still running; whether a call of the awaited scoring
\* group raised; per article id what its image call returned
NoGather ==
    /\ in_flight = [score |-> <<>>, image |-> <<>>]
    /\ returned = [raised |-> FALSE, images |-> <<>>]

\* the curate_news handler at rest
CurateIdle ==
    /\ pc = "idle"
    /\ exc = NoException
    /\ response = NoResponse
    /\ authorization = "missing"
    /\ user_id = "u1"
    /\ limit = 10
    /\ topic = "none"
    /\ preferences = "none"
    /\ query_variations = <<>>
    /\ articles = <<>>
    /\ news_calls = <<>>
    /\ valid_articles = <<>>
    /\ batch_start = 0
    /\ outcomes = <<>>
    /\ NoGather
    /\ analyzed_articles = <<>>
    /\ curated_articles = <<>>
    /\ final_articles = <<>>
    /\ image_start = 0
    /\ image_results = <<>>
    /\ stored_before = <<>>
    /\ op = "none"
    /\ payload = {}
    /\ external_calls = <<>>
    /\ prepared = NotPrepared
    /\ extracted = NotExtracted

InitStoreSeq == CurateIdle /\ annotations = "eager" /\ StoreInit({"w1"})

InitStore == CurateIdle /\ annotations = "eager" /\ StoreInit({"w1", "w2"})

NextStore ==
    \/ \E c \in ClientIds : ReplaceCall(c)
    \/ \E c \in ClientIds : ReplaceDelete(c)
    \/ \E c \in ClientIds : ReplaceInsert(c)
    \/ \E c \in ClientIds : ReplaceStatementError(c)
    \/ \E c \in ClientIds : \E u \in Users : Load(c, u)

SpecStoreSeq == InitStoreSeq /\ [][NextStore]_vars

SpecStore == InitStore /\ [][NextStore]_vars

----------------------------------------------------------------------------
(* curate_news: request, preferences and query *)

\* a request together with the preferences row the user has: limit, topic
\* (none when the parameter is absent) and the state of user_preferences
\* ("none": no row, "incomplete": not completed, "plain": completed with an
\* ai_profile and interests without keywords, "keywords": completed with an
\* ai_profile and interests with keywords)
Scenarios ==
    {[limit |-> 10, topic |-> "none",     preferences |-> "none"],
     [limit |-> 3,  topic |-> "tech",     preferences |-> "incomplete"],
     [limit |-> 12, topic |-> "new_york", preferences |-> "none"],
     [limit |-> 10, topic |-> "none",     preferences |-> "keywords"],
     [limit |-> 6,  topic |-> "new_york", preferences |-> "plain"]}

\* Authorization header: absent, a bearer token of no session, the bearer
\* token of a session of user u1
Authorizations == {"missing", "unknown", "u1"}

\* ai_profile is set only from a completed preferences row
HasAiProfile(pref) == pref \in {"plain", "keywords"}

\* `topic = topic or "general"` in the branch without an ai_profile
PromptTopic(pref, t) == IF ~HasAiProfile(pref) /\ t = "none" THEN "general" ELSE t

\* query variations with a second query to try after the first
QueryVariationsWithRetry(pref, t) == <<"news", "headlines">>

\* query_variations: the first keyword of the interests, the topic, or "news"
QueryVariations(pref, t) ==
    IF HasAiProfile(pref)
    THEN IF pref = "keywords" THEN <<"keyword">> ELSE <<"news">>
    ELSE IF t \notin {"none", "general"} THEN <<t>> ELSE <<"news">>

\* token = _require_auth(Authorization), before the try block: a missing
\* header is answered 401
Request ==
    /\ pc = "idle"
    /\ \E s \in Scenarios : \E a \in Authorizations :
          /\ authorization' = a
          /\ limit' = s.limit
          /\ topic' = s.topic
          /\ preferences' = s.preferences
          /\ stored_before' = table
          /\ op' = "curate_news"
          /\ IF a = "missing"
             THEN pc' = "done" /\ response' = ErrorResponse(401)
             ELSE pc' = "resolve" /\ UNCHANGED response
    /\ UNCHANGED <<exc, user_id, annotations, payload, external_calls, prepared, extracted>>
    /\ UNCHANGED <<srcVars, scoreVars, listVars, imageVars, storeVars>>

\* user_id = _get_user_id_from_token(conn, token), inside the try block: no
\* session raises HTTPException(401)
ResolveUser ==
    /\ pc = "resolve"
    /\ IF authorization = "unknown"
       THEN pc' = "except" /\ exc' = HTTPException(401) /\ UNCHANGED user_id
       ELSE pc' = "build" /\ user_id' = authorization /\ UNCHANGED exc
    /\ UNCHANGED <<response, authorization, limit, topic, preferences, annotations,
                   stored_before, opVars>>
    /\ UNCHANGED <<srcVars, scoreVars, listVars, imageVars, storeVars>>

\* load the preferences, build the prompt and the query (main.py:934-1012)
BuildQuery ==
    /\ pc = "build"
    /\ topic' = PromptTopic(preferences, topic)
    /\ query_variations' = QueryVariations(preferences, topic')
    /\ pc' = "search"
    /\ UNCHANGED <<exc, response, authorization, user_id, limit, preferences, annotations,
                   stored_before, opVars>>
    /\ UNCHANGED <<articles, news_calls, valid_articles>>
    /\ UNCHANGED <<scoreVars, listVars, imageVars, storeVars>>

\* get_newsapi_service() / get_openai_service() raise ValueError when the API
\* key is not set
ServiceUnavailable ==
    /\ pc = "build"
    /\ exc' = ValueError
    /\ pc' = "except"
    /\ UNCHANGED <<response, reqVars, srcVars, scoreVars, listVars, imageVars, storeVars>>

----------------------------------------------------------------------------
(* curate_news: sourcing *)

\* what a raw article of the provider has: a title, a description or
\* content, an image url
RawKinds ==
    {[title |-> FALSE, body |-> TRUE,  image |-> FALSE],
     [title |-> TRUE,  body |-> FALSE, image |-> FALSE],
     [title |-> TRUE,  body |-> TRUE,  image |-> FALSE],
     [title |-> TRUE,  body |-> TRUE,  image |-> TRUE]}

RawLists(n) ==
    {[k \in 1..n |-> [url |-> k, title |-> f[k].title, body |-> f[k].body,
                      image |-> f[k].image]] : f \in [1..n -> RawKinds]}

\* HTTP status of the provider's answer: success, rate limit, another failure
ProviderStatuses == {200, 429, 500}

\* NewsAPIService.search_everything / get_top_headlines, `except
\* httpx.HTTPStatusError`: status 429 raises ValueError("NewsAPI rate limit
\* exceeded..."), any other failure raises ValueError("NewsAPI error: ...")
NewsApiError(status) ==
    CASE status = 200 -> [type |-> "none", message |-> ""]
      [] status = 429 -> [type |-> "ValueError", message |-> "NewsAPI rate limit exceeded"]
      [] OTHER -> [type |-> "ValueError", message |-> "NewsAPI error"]

\* a call of the news provider: the function, the status, what it raised
NewsCall(fn, status) == [fn |-> fn, status |-> status, error |-> NewsApiError(status)]

\* where the handler goes once the search and the fallback are over:
\* `if not articles: raise HTTPException(status_code=404, ...)`
AfterSourcing(arts) == IF arts = <<>> THEN "raise_404" ELSE "prefilter"

\* one pass of `for query_variant in query_variations`: search_everything
\* returns a list, or raises and the loop continues; `break` on a non-empty
\* list.  The passes made so far are the calls recorded in news_calls.
SearchEverything ==
    /\ pc = "search"
    /\ Len(news_calls) < Len(query_variations)
    /\ \E status \in ProviderStatuses :
          /\ news_calls' = Append(news_calls, NewsCall("search_everything", status))
          /\ IF status = 200
             THEN \E n \in 0..MaxRaw : articles' \in RawLists(n)
             ELSE articles' = <<>>
    /\ pc' = IF articles' # <<>> THEN "prefilter"
             ELSE IF Len(news_calls') < Len(query_variations) THEN "search"
             ELSE "no_articles"
    /\ UNCHANGED <<exc, response, reqVars, query_variations, valid_articles>>
    /\ UNCHANGED <<scoreVars, listVars, imageVars, storeVars>>

\* if topic in ["new_york", "san_francisco"]: get_top_headlines returns a
\* list, or raises and the exception is swallowed
TopHeadlines ==
    /\ pc = "no_articles"
    /\ topic \in FallbackTopics
    /\ \E status \in ProviderStatuses :
          /\ news_calls' = Append(news_calls, NewsCall("get_top_headlines", status))
          /\ IF status = 200
             THEN \E n \in 0..MaxRaw : articles' \in RawLists(n)
             ELSE articles' = <<>>
    /\ pc' = AfterSourcing(articles')
    /\ UNCHANGED <<exc, response, reqVars, query_variations, valid_articles>>
    /\ UNCHANGED <<scoreVars, listVars, imageVars, storeVars>>

NoFallback ==
    /\ pc = "no_articles"
    /\ topic \notin FallbackTopics
    /\ pc' = AfterSourcing(articles)
    /\ UNCHANGED <<exc, response, reqVars, srcVars, scoreVars, listVars, imageVars, storeVars>>

RaiseNotFound ==
    /\ pc = "raise_404"
    /\ exc' = HTTPException(404)
    /\ pc' = "except"
    /\ UNCHANGED <<response, reqVars, srcVars, scoreVars, listVars, imageVars, storeVars>>

HasTitle(a) == a.title
HasTitleAndBody(a) == a.title /\ a.body

\* the pre-filter whose title-only fallback has no `[:5]`
ValidArticlesUncapped(arts) ==
    LET valid == SelectSeq(arts, HasTitleAndBody)
    IN IF valid # <<>> THEN valid ELSE SelectSeq(arts, HasTitle)

\* valid_articles: the articles with a title and a description or content;
\* when there is none, the first 5 articles with a title
ValidArticles(arts) ==
    LET valid == SelectSeq(arts, HasTitleAndBody)
    IN IF valid # <<>> THEN valid ELSE Take(SelectSeq(arts, HasTitle), TitleOnlyCap)

\* the pre-filter; `if not valid_articles: return []`
Prefilter ==
    /\ pc = "prefilter"
    /\ valid_articles' = ValidArticles(articles)
    /\ IF valid_articles' = <<>>
       THEN pc' = "done" /\ response' = Returned(<<>>)
       ELSE pc' = "scoring" /\ UNCHANGED response
    /\ UNCHANGED <<exc, reqVars, query_variations, articles, news_calls>>
    /\ UNCHANGED <<scoreVars, listVars, imageVars, storeVars>>

----------------------------------------------------------------------------
(* curate_news: scoring *)

\* what happens to one article in analyze_single_article: the LLM answers
\* with a score and a flag ("ok"), the LLM call or the parsing of its answer
\* raises ("raise"), or the code around the call raises ("crash"); "lost"
\* marks the articles of a batch whose gather raised
LlmOutcomes ==
    {[kind |-> "raise", score |-> 0, selected |-> FALSE]} \cup
    {[kind |-> "ok", score |-> a.score, selected |-> a.selected] : a \in LlmAnswers}

Crash == [kind |-> "crash", score |-> 0, selected |-> FALSE]
Lost == [kind |-> "lost", score |-> 0, selected |-> FALSE]

Outcomes == LlmOutcomes \cup {Crash}

\* analyze_article without its try/except: the failure leaves the function
AnalyzeArticleNoCatch(o) ==
    [raised |-> o.kind = "raise", selected |-> o.selected, relevance_score |-> o.score]

\* OpenAIService.analyze_article: the answer of the LLM, or on any failure
\* selected False and relevance_score 0.0
AnalyzeArticle(o) ==
    IF o.kind = "raise"
    THEN [raised |-> FALSE, selected |-> FALSE, relevance_score |-> 0]
    ELSE [raised |-> FALSE, selected |-> o.selected, relevance_score |-> o.score]

NoArticle ==
    [id |-> 0, title |-> "", summary |-> "none", content |-> "none", author |-> "none",
     source |-> "none", image_url |-> "none", url |-> 0, published_at |-> "none",
     category |-> "none", _relevance_score |-> 0, _is_selected |-> FALSE]

\* analyze_single_article: the scored article with a fresh id, or
\* success False when anything raised
AnalyzeSingleArticle(article, o, id) ==
    LET analysis == AnalyzeArticle(o)
    IN IF o.kind = "crash" \/ analysis.raised
       THEN [success |-> FALSE, article |-> NoArticle]
       ELSE [success |-> TRUE,
             article |-> [id |-> id,
                          title |-> IF article.title THEN "title" ELSE "Untitled",
                          summary |-> IF article.body THEN "description" ELSE "none",
                          content |-> IF article.body THEN "content" ELSE "none",
                          author |-> "none",
                          source |-> "source",
                          image_url |-> IF article.image THEN "orig" ELSE "none",
                          url |-> article.url,
                          published_at |-> "none",
                          category |-> "none",
                          _relevance_score |-> analysis.relevance_score,
                          _is_selected |-> analysis.selected]]

\* gather over a batch, then `if result.get("success"): append`: the scored
\* articles of the batch in the order of the batch; n uuids were generated
\* before
RECURSIVE AnalyzeBatch(_, _, _)
AnalyzeBatch(batch, os, n) ==
    IF batch = <<>> THEN <<>>
    ELSE LET r == AnalyzeSingleArticle(Head(batch), Head(os), n + 1)
         IN IF r.success
            THEN <<r.article>> \o AnalyzeBatch(Tail(batch), Tail(os), n + 1)
            ELSE AnalyzeBatch(Tail(batch), Tail(os), n)

\* a scoring loop that never leaves its head
NextBatchPcNoExit(start) == "scoring"

\* `for i in range(0, len(valid_articles), batch_size)`: the loop ends when i
\* has passed the end of the list
NextBatchPc(start) == IF start >= Len(valid_articles) THEN "scored" ELSE "scoring"

\* an except block that leaves the loop
BreakAfterGatherRaise(start) == "scored"

\* `except Exception as e: ... continue`: the loop goes on with the next
\* batch
AfterGatherRaise(start) == NextBatchPc(start)

\* one pass of the batch loop
ScoreBatch ==
    /\ pc = "scoring"
    /\ batch_start < Len(valid_articles)
    /\ LET batch == Slice(valid_articles, batch_start, BatchSize)
       IN \E os \in [1..Len(batch) -> Outcomes] :
             LET scored == AnalyzeBatch(batch, os, uuidCount)
             IN /\ analyzed_articles' = analyzed_articles \o scored
                /\ outcomes' = outcomes \o os
                /\ uuidCount' = uuidCount + Len(scored)
    /\ batch_start' = batch_start + BatchSize
    /\ pc' = NextBatchPc(batch_start')
    /\ UNCHANGED <<exc, response, reqVars, srcVars, curated_articles, final_articles>>
    /\ UNCHANGED <<in_flight, returned, imageVars, table, clients, rp, loaded, calls>>

\* one pass of the batch loop in which asyncio.gather raises: the batch is
\* skipped (`continue`)
SkipBatch ==
    /\ pc = "scoring"
    /\ batch_start < Len(valid_articles)
    /\ LET batch == Slice(valid_articles, batch_start, BatchSize)
       IN outcomes' = outcomes \o [k \in 1..Len(batch) |-> Lost]
    /\ batch_start' = batch_start + BatchSize
    /\ pc' = AfterGatherRaise(batch_start')
    /\ UNCHANGED <<exc, response, reqVars, srcVars, listVars, imageVars, storeVars>>
    /\ UNCHANGED <<in_flight, returned>>

----------------------------------------------------------------------------
(* curate_news: selection *)

\* if not analyzed_articles: raise HTTPException(status_code=500, ...)
CheckAnalyzedEmpty ==
    /\ pc = "scored"
    /\ analyzed_articles = <<>>
    /\ exc' = HTTPException(500)
    /\ pc' = "except"
    /\ UNCHANGED <<response, reqVars, srcVars, scoreVars, listVars, imageVars, storeVars>>

SortArticles ==
    /\ pc = "scored"
    /\ analyzed_articles # <<>>
    /\ analyzed_articles' = SortByRelevance(analyzed_articles)
    /\ pc' = "sorted"
    /\ UNCHANGED <<exc, response, reqVars, srcVars, scoreVars>>
    /\ UNCHANGED <<curated_articles, final_articles, imageVars, storeVars>>

SelectArticles ==
    /\ pc = "sorted"
    /\ curated_articles' = Curate(limit, analyzed_articles)
    /\ pc' = "selected"
    /\ UNCHANGED <<exc, response, reqVars, srcVars, scoreVars>>
    /\ UNCHANGED <<analyzed_articles, final_articles, imageVars, storeVars>>

StripArticles ==
    /\ pc = "selected"
    /\ final_articles' = StripFields(curated_articles)
    /\ pc' = "stripped"
    /\ UNCHANGED <<exc, response, reqVars, srcVars, scoreVars>>
    /\ UNCHANGED <<analyzed_articles, curated_articles, imageVars, storeVars>>

----------------------------------------------------------------------------
(* curate_news: image enrichment *)

NeedsImage(a) == a.image_url = "none"

\* articles_needing_images
NeedingImages(final) == SelectSeq(final, NeedsImage)

\* what happens in find_image_for_article: the candidates of the image search
\* (none when it finds nothing, is unconfigured or fails) and the answer of
\* the LLM: an index, or a failure of the call
ImageOutcomes ==
    {[candidates |-> <<>>, kind |-> "index", index |-> -1]} \cup
    {[candidates |-> <<"c0", "c1">>, kind |-> k, index |-> i] :
        k \in {"index"}, i \in {-1, 1, 2}} \cup
    {[candidates |-> <<"c0", "c1">>, kind |-> "raise", index |-> -1]}

\* select_best_image: the index of the chosen candidate, -1 for None; a
\* failure of the LLM call chooses the first candidate
SelectBestImage(o) ==
    IF o.kind = "raise" THEN 0
    ELSE IF o.index >= 0 /\ o.index < Len(o.candidates) THEN o.index ELSE -1

\* find_image_for_article without `image_candidates[0].get("url")`: no url
\* when select_best_image gives None
FindImageForArticleNoFallback(o) ==
    IF o.candidates = <<>> THEN "none"
    ELSE IF o.kind = "index" /\ o.index >= 0 /\ o.index < Len(o.candidates)
         THEN o.candidates[o.index + 1]
         ELSE "none"

\* find_image_for_article: the url found, "none" for None
FindImageForArticle(o) ==
    IF o.candidates = <<>> THEN "none"
    ELSE LET chosen == SelectBestImage(o)
         IN IF chosen >= 0 THEN o.candidates[chosen + 1] ELSE o.candidates[1]

\* `for article in final_articles: if article_id in image_results: ...`
UpdateImages(final, results) ==
    [k \in 1..Len(final) |->
        IF final[k].id \in DOMAIN results
        THEN [final[k] EXCEPT !.image_url = results[final[k].id]]
        ELSE final[k]]

\* `if articles_needing_images:` and the `def find_image_for_article(article:
\* Dict) -> Optional[str]`: main.py imports no Dict, so an interpreter that
\* evaluates annotations when the def statement runs raises NameError
StartImages ==
    /\ pc = "stripped"
    /\ IF NeedingImages(final_articles) = <<>>
       THEN pc' = "persist" /\ UNCHANGED exc
       ELSE IF annotations = "eager"
            THEN pc' = "except" /\ exc' = NameError
            ELSE pc' = "images" /\ UNCHANGED exc
    /\ image_start' = 0
    /\ image_results' = <<>>
    /\ UNCHANGED <<response, reqVars, srcVars, scoreVars, listVars, storeVars>>

\* one pass of the image loop; after the last pass final_articles is updated
FindImages ==
    /\ pc = "images"
    /\ LET needing == NeedingImages(final_articles)
           batch == Slice(needing, image_start, ImageBatchSize)
       IN \E os \in [1..Len(batch) -> ImageOutcomes] :
             LET found == {k \in 1..Len(batch) : FindImageForArticle(os[k]) # "none"}
                 results == [id \in {batch[k].id : k \in found} |->
                                FindImageForArticle(
                                    os[CHOOSE k \in found : batch[k].id = id])]
             IN /\ image_results' = results @@ image_results
                /\ image_start' = image_start + ImageBatchSize
                /\ IF image_start' >= Len(needing)
                   THEN /\ final_articles' = UpdateImages(final_articles, image_results')
                        /\ pc' = "persist"
                   ELSE UNCHANGED <<final_articles, pc>>
    /\ UNCHANGED <<exc, response, reqVars, srcVars, scoreVars>>
    /\ UNCHANGED <<analyzed_articles, curated_articles, storeVars>>

----------------------------------------------------------------------------
(* curate_news: persistence, return and the except clauses *)

\* where the handler would go after _replace_user_curated_articles without
\* the try/except around it
AfterReplaceNoCatch(status) == IF status = "raised" THEN "except" ELSE "return"

\* where the handler goes after the try/except around
\* _replace_user_curated_articles: its exception is logged, not re-raised
AfterReplace(status) == "return"

\* _replace_user_curated_articles(conn, user_id, final_articles)
Persist ==
    /\ pc = "persist"
    /\ BeginReplace("api", user_id, final_articles)
    /\ pc' = "persisting"
    /\ UNCHANGED <<exc, response, reqVars, srcVars, scoreVars, listVars, imageVars>>
    /\ UNCHANGED <<table, clients, loaded, uuidCount>>

\* return final_articles
Return ==
    /\ pc = "persisting"
    /\ rp["api"].pc \in {"returned", "raised"}
    /\ IF AfterReplace(rp["api"].pc) = "return"
       THEN pc' = "done" /\ response' = Returned(final_articles) /\ UNCHANGED exc
       ELSE pc' = "except" /\ exc' = [type |-> "Exception", status |-> 0]
                           /\ UNCHANGED response
    /\ UNCHANGED <<reqVars, srcVars, scoreVars, listVars, imageVars, storeVars>>

\* except ValueError: raise HTTPException(400); except Exception: raise
\* HTTPException(500).  HTTPException is an Exception, so one raised inside
\* the try block leaves the handler as a 500.
ExceptClause(e) == IF e.type = "ValueError" THEN ErrorResponse(400) ELSE ErrorResponse(500)

HandlerExcept ==
    /\ pc = "except"
    /\ response' = ExceptClause(exc)
    /\ pc' = "done"
    /\ UNCHANGED <<exc, reqVars, srcVars, scoreVars, listVars, imageVars, storeVars>>

----------------------------------------------------------------------------
(* The specification of the handler: one server process that serves one     *)
(* curation request of user u1, the store holding what earlier runs left.   *)

\* a row as an earlier run of user u stored it
PriorRow(u, id) ==
    InsertRow(<<>>, u, NewsArticle(id, 0, "title", "description", "content", "orig"))[1]

PriorRows(n) == [k \in 1..n |-> PriorRow("u1", k)]

OtherUserRow == PriorRow("u2", 0)

Init ==
    /\ CurateIdle
    /\ annotations \in {"eager", "deferred"}
    /\ \E n \in PriorSizes : table = <<OtherUserRow>> \o PriorRows(n)
    /\ uuidCount = Len(table) - 1
    /\ clients = {"api"}
    /\ rp = [c \in ClientIds |-> IdleCall]
    /\ loaded = NotLoaded
    /\ calls = <<>>

Next ==
    \/ Request
    \/ ResolveUser
    \/ BuildQuery
    \/ ServiceUnavailable
    \/ SearchEverything
    \/ TopHeadlines
    \/ NoFallback
    \/ RaiseNotFound
    \/ Prefilter
    \/ ScoreBatch
    \/ SkipBatch
    \/ CheckAnalyzedEmpty
    \/ SortArticles
    \/ SelectArticles
    \/ StripArticles
    \/ StartImages
    \/ FindImages
    \/ Persist
    \/ Return
    \/ HandlerExcept
    \/ \E c \in ClientIds : ReplaceDelete(c)
    \/ \E c \in ClientIds : ReplaceInsert(c)
    \/ \E c \in ClientIds : ReplaceStatementError(c)

Spec == Init /\ [][Next]_vars

----------------------------------------------------------------------------
(* Selection specification: the scoring loop has ended with any list of at   *)
(* most MaxScored scored articles, in provider order, with fresh ids.        *)

ScoredLists(n) ==
    {[i \in 1..n |->
        AnalyzeSingleArticle([url |-> i, title |-> TRUE, body |-> TRUE, image |-> TRUE],
                             [kind |-> "ok", score |-> f[i][1], selected |-> f[i][2]],
                             i).article] :
        f \in [1..n -> SelectScores \X BOOLEAN]}

InitSelect ==
    /\ pc = "scored"
    /\ exc = NoException
    /\ response = NoResponse
    /\ authorization = "u1"
    /\ user_id = "u1"
    /\ limit \in Limits
    /\ topic = "general"
    /\ preferences = "none"
    /\ annotations = "eager"
    /\ stored_before = <<>>
    /\ op = "curate_news"
    /\ payload = {}
    /\ external_calls = <<>>
    /\ prepared = NotPrepared
    /\ extracted = NotExtracted
    /\ query_variations = <<"news">>
    /\ articles = <<>>
    /\ news_calls = <<NewsCall("search_everything", 200)>>
    /\ valid_articles = <<>>
    /\ batch_start = 0
    /\ outcomes = <<>>
    /\ NoGather
    /\ \E n \in 0..MaxScored : analyzed_articles \in ScoredLists(n)
    /\ curated_articles = <<>>
    /\ final_articles = <<>>
    /\ image_start = 0
    /\ image_results = <<>>
    /\ StoreInit({"api"})

NextSelect ==
    \/ CheckAnalyzedEmpty
    \/ SortArticles
    \/ SelectArticles
    \/ StripArticles
    \/ HandlerExcept

SpecSelect == InitSelect /\ [][NextSelect]_vars


----------------------------------------------------------------------------
(* Pre-filter specification: the sourcing has ended with any list of 1 to   *)
(* MaxCandidates raw articles (without images), and the pre-filter runs.    *)

CandidateLists(n) == {l \in RawLists(n) : \A k \in 1..n : ~l[k].image}

InitPrefilter ==
    /\ pc = "prefilter"
    /\ exc = NoException
    /\ response = NoResponse
    /\ authorization = "u1"
    /\ user_id = "u1"
    /\ limit = 10
    /\ topic = "general"
    /\ preferences = "none"
    /\ annotations = "eager"
    /\ stored_before = <<>>
    /\ op = "curate_news"
    /\ payload = {}
    /\ external_calls = <<>>
    /\ prepared = NotPrepared
    /\ extracted = NotExtracted
    /\ query_variations = <<"news">>
    /\ \E n \in 1..MaxCandidates : articles \in CandidateLists(n)
    /\ news_calls = <<NewsCall("search_everything", 200)>>
    /\ valid_articles = <<>>
    /\ batch_start = 0
    /\ outcomes = <<>>
    /\ NoGather
    /\ analyzed_articles = <<>>
    /\ curated_articles = <<>>
    /\ final_articles = <<>>
    /\ image_start = 0
    /\ image_results = <<>>
    /\ StoreInit({"api"})

NextPrefilter == Prefilter

SpecPrefilter == InitPrefilter /\ [][NextPrefilter]_vars

----------------------------------------------------------------------------
(* curate_news: the two fan-outs, call by call.  asyncio.gather starts the  *)
(* calls of a group together and waits for them; when a call raises, gather *)
(* raises at once and the other calls of the group keep running.            *)

\* the JSON object the LLM answers with: the keys it has, and a
\* relevance_score below 0, inside [0,1] or above 1 (tenths)
LlmResponses ==
    {[keys |-> {}, relevance_score |-> 0, selected |-> FALSE],
     [keys |-> {"relevance_score", "selected"}, relevance_score |-> -2, selected |-> TRUE],
     [keys |-> {"relevance_score", "selected"}, relevance_score |-> 3, selected |-> FALSE],
     [keys |-> {"relevance_score", "selected"}, relevance_score |-> 8, selected |-> TRUE],
     [keys |-> {"relevance_score", "selected"}, relevance_score |-> 15, selected |-> TRUE]}

\* analyze_article, the return statement: result.get("selected", False) and
\* float(result.get("relevance_score", 0.0))
LlmResult(r) ==
    [kind |-> "ok",
     score |-> IF "relevance_score" \in r.keys THEN r.relevance_score ELSE 0,
     selected |-> IF "selected" \in r.keys THEN r.selected ELSE FALSE]

\* what a call of analyze_single_article that returns can have done
WideOutcomes ==
    {[kind |-> "raise", score |-> 0, selected |-> FALSE], Crash} \cup
    {LlmResult(r) : r \in LlmResponses}

\* the outcomes of the n calls of one gather: all calls of a group end the
\* same way
GatherOutcomes(n) == {[k \in 1..n |-> o] : o \in WideOutcomes}

\* the scoring group that is awaited
CurrentGroup == Len(in_flight.score)

\* results = await asyncio.gather(*[analyze_single_article(article) for
\* article in batch]): the calls of the batch are started
SubmitBatch ==
    /\ pc = "scoring"
    /\ batch_start < Len(valid_articles)
    /\ LET batch == Slice(valid_articles, batch_start, BatchSize)
       IN in_flight' = [in_flight EXCEPT !.score = Append(@, Len(batch))]
    /\ returned' = [returned EXCEPT !.raised = FALSE]
    /\ pc' = "gather"
    /\ UNCHANGED <<exc, response, reqVars, srcVars, batch_start, outcomes>>
    /\ UNCHANGED <<listVars, imageVars, storeVars>>

\* a call of group g returns its dict, with success True or False
CallReturns(g) ==
    /\ g \in DOMAIN in_flight.score
    /\ in_flight.score[g] > 0
    /\ in_flight' = [in_flight EXCEPT !.score[g] = @ - 1]
    /\ UNCHANGED <<ctlVars, reqVars, srcVars, batch_start, outcomes, returned>>
    /\ UNCHANGED <<listVars, imageVars, storeVars>>

\* an exception leaves a call of group g (its `except Exception` block
\* raises): the gather that awaits the group receives it
CallRaises(g) ==
    /\ g \in DOMAIN in_flight.score
    /\ in_flight.score[g] > 0
    /\ in_flight' = [in_flight EXCEPT !.score[g] = @ - 1]
    /\ returned' = IF pc = "gather" /\ g = CurrentGroup
                   THEN [returned EXCEPT !.raised = TRUE]
                   ELSE returned
    /\ UNCHANGED <<ctlVars, reqVars, srcVars, batch_start, outcomes>>
    /\ UNCHANGED <<listVars, imageVars, storeVars>>

\* every call of the group has returned: gather returns the results in the
\* order of the batch and the successful ones are appended
GatherReturn ==
    /\ pc = "gather"
    /\ in_flight.score[CurrentGroup] = 0
    /\ ~returned.raised
    /\ LET batch == Slice(valid_articles, batch_start, BatchSize)
       IN \E os \in GatherOutcomes(Len(batch)) :
             LET scored == AnalyzeBatch(batch, os, uuidCount)
             IN /\ analyzed_articles' = analyzed_articles \o scored
                /\ outcomes' = outcomes \o os
                /\ uuidCount' = uuidCount + Len(scored)
    /\ batch_start' = batch_start + BatchSize
    /\ pc' = NextBatchPc(batch_start')
    /\ UNCHANGED <<exc, response, reqVars, srcVars, curated_articles, final_articles>>
    /\ UNCHANGED <<in_flight, returned, imageVars, table, clients, rp, loaded, calls>>

\* a call of the group has raised: gather raises without waiting for the
\* other calls; `except Exception: ... continue`
GatherRaise ==
    /\ pc = "gather"
    /\ returned.raised
    /\ LET batch == Slice(valid_articles, batch_start, BatchSize)
       IN outcomes' = outcomes \o [k \in 1..Len(batch) |-> Lost]
    /\ batch_start' = batch_start + BatchSize
    /\ pc' = AfterGatherRaise(batch_start')
    /\ UNCHANGED <<exc, response, reqVars, srcVars, listVars, imageVars, storeVars>>
    /\ UNCHANGED <<in_flight, returned>>

\* the outcomes of the n calls of find_image_for_article of one gather: all
\* calls of a group end the same way
ImageGatherOutcomes(n) == {[k \in 1..n |-> o] : o \in ImageOutcomes}

\* the image group that is awaited
CurrentImageGroup == Len(in_flight.image)

\* results = await asyncio.gather(*[find_image_for_article(article) for
\* article in batch])
SubmitImageBatch ==
    /\ pc = "images"
    /\ LET batch == Slice(NeedingImages(final_articles), image_start, ImageBatchSize)
       IN in_flight' = [in_flight EXCEPT !.image = Append(@, Len(batch))]
    /\ pc' = "gather_images"
    /\ UNCHANGED <<exc, response, reqVars, srcVars, batch_start, outcomes, returned>>
    /\ UNCHANGED <<listVars, imageVars, storeVars>>

\* a call of find_image_for_article returns: an url or None
ImageCallReturns ==
    /\ pc = "gather_images"
    /\ in_flight.image[CurrentImageGroup] > 0
    /\ in_flight' = [in_flight EXCEPT !.image[CurrentImageGroup] = @ - 1]
    /\ UNCHANGED <<ctlVars, reqVars, srcVars, batch_start, outcomes, returned>>
    /\ UNCHANGED <<listVars, imageVars, storeVars>>

\* every call of the group has returned: `for article, image_url in
\* zip(batch, results): if image_url: image_results[id] = image_url`; after
\* the last group final_articles is updated
GatherImages ==
    /\ pc = "gather_images"
    /\ in_flight.image[CurrentImageGroup] = 0
    /\ LET needing == NeedingImages(final_articles)
           batch == Slice(needing, image_start, ImageBatchSize)
       IN \E os \in ImageGatherOutcomes(Len(batch)) :
             LET found == {k \in 1..Len(batch) : FindImageForArticle(os[k]) # "none"}
                 results == [id \in {batch[k].id : k \in found} |->
                                FindImageForArticle(
                                    os[CHOOSE k \in found : batch[k].id = id])]
             IN /\ image_results' = results @@ image_results
                /\ returned' = [returned EXCEPT !.images =
                                   [id \in {batch[k].id : k \in 1..Len(batch)} |->
                                       os[CHOOSE k \in 1..Len(batch) : batch[k].id = id]]
                                   @@ @]
                /\ image_start' = image_start + ImageBatchSize
                /\ IF image_start' >= Len(needing)
                   THEN /\ final_articles' = UpdateImages(final_articles, image_results')
                        /\ pc' = "persist"
                   ELSE /\ pc' = "images"
                        /\ UNCHANGED final_articles
    /\ UNCHANGED <<exc, response, reqVars, srcVars, batch_start, outcomes, in_flight>>
    /\ UNCHANGED <<analyzed_articles, curated_articles, storeVars>>

\* numbers of valid articles of a run of the fan-out specification: two and
\* three scoring groups
FanOutSizes == {12, 21}

\* number of valid articles of a run of the specification of the whole run
RunSizes == {12}

\* the k-th valid article: with title and description; the first two have
\* an image
FanOutArticles(n) ==
    [k \in 1..n |-> [url |-> k, title |-> TRUE, body |-> TRUE, image |-> k <= 2]]

\* the pre-filter has ended with a list of n valid articles; the store holds
\* an earlier set of user u1
InitScoring(n) ==
    /\ pc = "scoring"
    /\ exc = NoException
    /\ response = NoResponse
    /\ authorization = "u1"
    /\ user_id = "u1"
    /\ limit = 10
    /\ topic = "general"
    /\ preferences = "none"
    /\ annotations \in {"eager", "deferred"}
    /\ op = "curate_news"
    /\ payload = {}
    /\ external_calls = <<>>
    /\ prepared = NotPrepared
    /\ extracted = NotExtracted
    /\ query_variations = <<"news">>
    /\ articles = FanOutArticles(n)
    /\ news_calls = <<NewsCall("search_everything", 200)>>
    /\ valid_articles = articles
    /\ batch_start = 0
    /\ outcomes = <<>>
    /\ NoGather
    /\ analyzed_articles = <<>>
    /\ curated_articles = <<>>
    /\ final_articles = <<>>
    /\ image_start = 0
    /\ image_results = <<>>
    /\ table = <<OtherUserRow>> \o PriorRows(2)
    /\ stored_before = table
    /\ uuidCount = Len(table) - 1
    /\ clients = {"api"}
    /\ rp = [c \in ClientIds |-> IdleCall]
    /\ loaded = NotLoaded
    /\ calls = <<>>

\* The fan-out specification: the handler from the scoring loop up to the
\* store write, with more than BatchSize valid articles.
InitFanOut == \E n \in FanOutSizes : InitScoring(n)

NextFanOut ==
    \/ SubmitBatch
    \/ \E g \in DOMAIN in_flight.score : CallReturns(g)
    \/ \E g \in DOMAIN in_flight.score : CallRaises(g)
    \/ GatherReturn
    \/ GatherRaise
    \/ CheckAnalyzedEmpty
    \/ SortArticles
    \/ SelectArticles
    \/ StripArticles
    \/ StartImages
    \/ SubmitImageBatch
    \/ ImageCallReturns
    \/ GatherImages
    \/ HandlerExcept

SpecFanOut == InitFanOut /\ [][NextFanOut]_vars

\* The specification of the whole run: the handler from the scoring loop to
\* its response, store write included.
InitRun == \E n \in RunSizes : InitScoring(n)

NextRun ==
    \/ NextFanOut
    \/ Persist
    \/ Return
    \/ ReplaceDelete("api")
    \/ ReplaceInsert("api")
    \/ ReplaceStatementError("api")

SpecRun == InitRun /\ [][NextRun]_vars

\* The handler is one coroutine on the event loop: a step it can take is
\* taken, and every call it awaits returns or fails.
FairRun == SpecRun /\ WF_vars(NextRun)

----------------------------------------------------------------------------
(* The other handlers of the application.  Each serves one request; the     *)
(* collaborators it calls (session table, curated-articles table,           *)
(* preferences table, identity provider, LLM, page fetch) are recorded in   *)
(* external_calls in the order of the calls.                                *)

\* _require_auth and _get_user_id_from_token: what the header resolves to
Authenticate(a) ==
    IF a = "missing" THEN "no_token"
    ELSE IF a = "unknown" THEN "no_session"
    ELSE "ok"

\* GET /news/curated.  _require_auth is outside the try block; inside it an
\* HTTPException is re-raised and any other exception returns []
GetCuratedNews ==
    /\ pc = "idle"
    /\ op' = "get_curated_news"
    /\ pc' = "done"
    /\ \E a \in Authorizations : \E db \in {"ok", "error"} :
          /\ authorization' = a
          /\ CASE Authenticate(a) = "no_token" ->
                    /\ response' = ErrorResponse(401)
                    /\ external_calls' = <<>>
                    /\ UNCHANGED <<user_id, loaded>>
               [] Authenticate(a) = "no_session" ->
                    /\ response' = ErrorResponse(401)
                    /\ external_calls' = <<"sessions">>
                    /\ UNCHANGED <<user_id, loaded>>
               [] OTHER ->
                    /\ user_id' = a
                    /\ external_calls' = <<"sessions", "user_curated_articles">>
                    /\ IF db = "error"
                       THEN response' = Returned(<<>>) /\ UNCHANGED loaded
                       ELSE /\ loaded' = [user_id |-> a,
                                          articles |-> LoadUserArticles(table, a),
                                          during |-> Running(a)]
                            /\ response' = Returned(loaded'.articles)
    /\ stored_before' = table
    /\ UNCHANGED <<exc, limit, topic, preferences, annotations, payload, prepared, extracted>>
    /\ UNCHANGED <<srcVars, scoreVars, listVars, imageVars>>
    /\ UNCHANGED <<table, clients, rp, uuidCount, calls>>

----------------------------------------------------------------------------
(* OpenAIService.extract_article_with_tools *)

\* what happens in one extraction: the first LLM call raises (error or
\* timeout), answers without a tool call, calls another tool, or calls the
\* fetch tool; the page fetch succeeds or fails; the second LLM call raises,
\* answers with text that is no JSON, with a JSON object without the keys, or
\* with the full JSON object
ExtractOutcomes ==
    {[first |-> f, fetch |-> "none", second |-> "none"] :
        f \in {"raise", "no_tool_call", "other_tool"}} \cup
    {[first |-> "tool_call", fetch |-> f, second |-> x] :
        f \in {"ok", "fail"}, x \in {"raise", "not_json", "no_keys", "json"}}

\* the minimal structure
EmptyExtraction ==
    [title |-> "", summary |-> "", content |-> "", image_url |-> "", source_name |-> ""]

\* fetch_and_extract_article: the page's data, or on any failure of the fetch
\* a dict with an error text and empty data (it has no "content" key, which
\* the callers read with the default "")
FetchAndExtractArticle(fetch) ==
    IF fetch = "ok"
    THEN [title |-> "page title", content |-> "page text", image_url |-> "og image",
          source_name |-> "domain"]
    ELSE [title |-> "", content |-> "", image_url |-> "", source_name |-> ""]

\* an extraction that fetches the page before it asks the model
ExtractionCallsFetchFirst(o) ==
    <<[call |-> "fetch", round |-> 1, input |-> "url"],
      [call |-> "llm", round |-> 1, input |-> "url"]>>

\* the external calls of one extraction, in their order: the first LLM call
\* with the url; `if not tool_calls: return`, `if tool_call.function.name !=
\* "fetch_and_extract_article": return`; then the page fetch; then the
\* second LLM call with json.dumps(extracted) as the tool message
ExtractionCalls(o) ==
    LET first_call == <<[call |-> "llm", round |-> 1, input |-> "url"]>>
    IN IF o.first # "tool_call"
       THEN first_call
       ELSE first_call \o
            <<[call |-> "fetch", round |-> 1, input |-> "url"],
              [call |-> "llm", round |-> 2,
               input |-> IF o.fetch = "ok" THEN "page" ELSE "fetch error"]>>

\* extract_article_with_tools: the two LLM calls are outside any try block,
\* so their exceptions leave the function
ExtractArticleWithTools(o) ==
    LET page == FetchAndExtractArticle(o.fetch)
    IN CASE o.first = "raise" ->
               [outcome |-> o, calls |-> ExtractionCalls(o), raised |-> TRUE, result |-> EmptyExtraction]
         [] o.first \in {"no_tool_call", "other_tool"} ->
               [outcome |-> o, calls |-> ExtractionCalls(o), raised |-> FALSE, result |-> EmptyExtraction]
         [] o.second = "raise" ->
               [outcome |-> o, calls |-> ExtractionCalls(o), raised |-> TRUE, result |-> EmptyExtraction]
         [] o.second \in {"not_json", "no_keys"} ->
               [outcome |-> o, calls |-> ExtractionCalls(o), raised |-> FALSE,
                result |-> [title |-> page.title, summary |-> "",
                            content |-> page.content, image_url |-> page.image_url,
                            source_name |-> page.source_name]]
         [] OTHER ->
               [outcome |-> o, calls |-> ExtractionCalls(o), raised |-> FALSE,
                result |-> [title |-> "llm title", summary |-> "llm summary",
                            content |-> "full", image_url |-> "llm image",
                            source_name |-> "llm source"]]

\* article_id = hashlib.sha256(url.encode("utf-8")).hexdigest()
Sha256(url) == 1000 + url

\* GET /news/full-article: _require_auth only (the token is not resolved),
\* then the extraction; its exception becomes a 500
GetFullArticleFromUrl ==
    /\ pc = "idle"
    /\ op' = "get_full_article_from_url"
    /\ pc' = "done"
    /\ \E a \in Authorizations : \E o \in ExtractOutcomes :
          /\ authorization' = a
          /\ IF Authenticate(a) = "no_token"
             THEN /\ response' = ErrorResponse(401)
                  /\ UNCHANGED <<external_calls, extracted>>
             ELSE /\ extracted' = ExtractArticleWithTools(o)
                  /\ external_calls' = <<"llm">>
                  /\ IF extracted'.raised
                     THEN response' = ErrorResponse(500)
                     ELSE LET r == extracted'.result
                          IN response' = Returned(<<
                                [id |-> Sha256(1),
                                 title |-> IF r.title = "" THEN "Untitled" ELSE r.title,
                                 summary |-> r.summary,
                                 content |-> r.content,
                                 author |-> "none",
                                 source |-> IF r.source_name = "" THEN "domain"
                                            ELSE r.source_name,
                                 image_url |-> IF r.image_url = "" THEN "none"
                                               ELSE r.image_url,
                                 url |-> 1,
                                 published_at |-> "none",
                                 category |-> "none"]>>)
    /\ stored_before' = table
    /\ UNCHANGED <<exc, user_id, limit, topic, preferences, annotations, payload, prepared>>
    /\ UNCHANGED <<srcVars, scoreVars, listVars, imageVars, storeVars>>

----------------------------------------------------------------------------
(* POST /news/prepare-articles *)

\* 0 stands for a row without url
NoUrl == 0

\* UPDATE public.user_curated_articles SET content = .., summary = ..,
\* image_url = .. WHERE id = %s AND user_id = %s, with the fields for which
\* the extraction gave a value
UpdateArticleRow(tbl, id, u, r) ==
    [k \in 1..Len(tbl) |->
        IF tbl[k].id = id /\ tbl[k].user_id = u
        THEN [tbl[k] EXCEPT
                !.content = IF r.content # "" THEN r.content ELSE @,
                !.summary = IF r.summary # "" THEN r.summary ELSE @,
                !.image_url = IF r.image_url # "" THEN r.image_url ELSE @]
        ELSE tbl[k]]

\* `if update_fields:`
HasUpdateFields(r) == r.content # "" \/ r.summary # "" \/ r.image_url # ""

\* the handler up to the batch loop: authentication, load of the user's
\* curated articles, `if not articles: return {... "total": 0 ...}`
PrepareArticles ==
    /\ pc = "idle"
    /\ op' = "prepare_articles"
    /\ \E a \in Authorizations :
          /\ authorization' = a
          /\ CASE Authenticate(a) = "no_token" ->
                    /\ response' = ErrorResponse(401)
                    /\ pc' = "done"
                    /\ UNCHANGED <<user_id, loaded, external_calls, prepared>>
               [] Authenticate(a) = "no_session" ->
                    /\ response' = ErrorResponse(401)
                    /\ pc' = "done"
                    /\ external_calls' = <<"sessions">>
                    /\ UNCHANGED <<user_id, loaded, prepared>>
               [] OTHER ->
                    /\ user_id' = a
                    /\ external_calls' = <<"sessions", "user_curated_articles">>
                    /\ loaded' = [user_id |-> a,
                                  articles |-> LoadUserArticles(table, a),
                                  during |-> Running(a)]
                    /\ prepared' = [i |-> 1, total |-> Len(loaded'.articles),
                                    processed |-> 0, failed |-> 0]
                    /\ IF loaded'.articles = <<>>
                       THEN /\ response' = Returned(<<prepared'>>)
                            /\ pc' = "done"
                       ELSE /\ pc' = "preparing"
                            /\ UNCHANGED response
    /\ stored_before' = table
    /\ UNCHANGED <<exc, limit, topic, preferences, annotations, payload, extracted>>
    /\ UNCHANGED <<srcVars, scoreVars, listVars, imageVars>>
    /\ UNCHANGED <<table, clients, rp, uuidCount, calls>>

\* extract_and_update_article for the next loaded article: skipped without
\* url, counted as prepared when its content is already full, otherwise the
\* extraction and the UPDATE; every exception inside is caught and counts
\* as a failure
ExtractAndUpdateArticle ==
    /\ pc = "preparing"
    /\ prepared.i <= prepared.total
    /\ LET article == loaded.articles[prepared.i]
       IN CASE article.url = NoUrl ->
                    /\ prepared' = [prepared EXCEPT !.i = @ + 1, !.failed = @ + 1]
                    /\ UNCHANGED <<table, extracted, external_calls>>
            [] article.content = "full" ->
                    /\ prepared' = [prepared EXCEPT !.i = @ + 1, !.processed = @ + 1]
                    /\ UNCHANGED <<table, extracted, external_calls>>
            [] OTHER ->
                 \E o \in ExtractOutcomes : \E db \in {"ok", "error"} :
                    /\ extracted' = ExtractArticleWithTools(o)
                    /\ IF extracted'.raised \/ ~HasUpdateFields(extracted'.result)
                       THEN /\ prepared' = [prepared EXCEPT !.i = @ + 1, !.failed = @ + 1]
                            /\ external_calls' = Append(external_calls, "llm")
                            /\ UNCHANGED table
                       ELSE /\ external_calls' =
                                  external_calls \o <<"llm", "user_curated_articles">>
                            /\ IF db = "error"
                               THEN /\ prepared' = [prepared EXCEPT !.i = @ + 1,
                                                                    !.failed = @ + 1]
                                    /\ UNCHANGED table
                               ELSE /\ prepared' = [prepared EXCEPT !.i = @ + 1,
                                                                    !.processed = @ + 1]
                                    /\ table' = UpdateArticleRow(table, article.id,
                                                                 user_id, extracted'.result)
    /\ UNCHANGED <<pc, exc, response, authorization, user_id, limit, topic, preferences,
                   annotations, stored_before, op, payload>>
    /\ UNCHANGED <<srcVars, scoreVars, listVars, imageVars>>
    /\ UNCHANGED <<clients, rp, loaded, uuidCount, calls>>

\* return {"status": "success", "total": .., "processed": .., "failed": ..}
PrepareReturn ==
    /\ pc = "preparing"
    /\ prepared.i > prepared.total
    /\ response' = Returned(<<prepared>>)
    /\ pc' = "done"
    /\ UNCHANGED <<exc, reqVars, srcVars, scoreVars, listVars, imageVars, storeVars>>

----------------------------------------------------------------------------
(* Authentication, chat and preferences handlers *)

\* the handler answers: what it gives the caller and the collaborators it
\* has called
Answer(name, a, fields, resp, called) ==
    /\ op' = name
    /\ authorization' = a
    /\ payload' = fields
    /\ response' = resp
    /\ external_calls' = called
    /\ stored_before' = table
    /\ pc' = "done"

\* what these handlers never touch
HandlerFrame ==
    /\ UNCHANGED <<exc, limit, topic, annotations, prepared, extracted>>
    /\ UNCHANGED <<srcVars, scoreVars, listVars, imageVars, storeVars>>

\* the body of auth_google / auth_apple: the token field is tested first,
\* then the token is verified with the identity provider, the user upserted
\* and the session stored
OAuthLogin(name, field) ==
    /\ pc = "idle"
    /\ \E fields \in SUBSET {field} : \E verify \in {"valid", "invalid", "error"} :
          IF field \notin fields
          THEN Answer(name, "missing", fields, ErrorResponse(400), <<>>)
          ELSE CASE verify = "invalid" ->
                      Answer(name, "missing", fields, ErrorResponse(401),
                             <<"identity_provider">>)
                 [] verify = "error" ->
                      Answer(name, "missing", fields, ErrorResponse(500),
                             <<"identity_provider">>)
                 [] OTHER ->
                      Answer(name, "missing", fields, Returned(<<>>),
                             <<"identity_provider", "users", "sessions">>)
    /\ UNCHANGED <<user_id, preferences>>
    /\ HandlerFrame

\* POST /auth/google
AuthGoogle == OAuthLogin("auth_google", "id_token")

\* POST /auth/apple
AuthApple == OAuthLogin("auth_apple", "identity_token")

\* GET /me: the session is looked up in the handler itself
Me ==
    /\ pc = "idle"
    /\ \E a \in Authorizations :
          CASE Authenticate(a) = "no_token" ->
                  Answer("me", a, {}, ErrorResponse(401), <<>>)
            [] Authenticate(a) = "no_session" ->
                  Answer("me", a, {}, ErrorResponse(401), <<"sessions">>)
            [] OTHER ->
                  Answer("me", a, {}, Returned(<<>>), <<"sessions">>)
    /\ UNCHANGED <<user_id, preferences>>
    /\ HandlerFrame

\* the body of chat / chat_interests: _require_auth, the test of the
\* required fields, then the LLM call inside try/except Exception -> 500.
\* chat requires message; chat_interests requires message or history.
ChatWithAi(name, optional, required) ==
    /\ pc = "idle"
    /\ \E a \in Authorizations : \E fields \in SUBSET optional :
       \E llm \in {"answer", "raise"} :
          CASE Authenticate(a) = "no_token" ->
                  Answer(name, a, fields, ErrorResponse(401), <<>>)
            [] fields \cap required = {} ->
                  Answer(name, a, fields, ErrorResponse(400), <<>>)
            [] llm = "raise" ->
                  Answer(name, a, fields, ErrorResponse(500), <<"llm">>)
            [] OTHER ->
                  Answer(name, a, fields, Returned(<<>>), <<"llm">>)
    /\ UNCHANGED <<user_id, preferences>>
    /\ HandlerFrame

\* POST /chat
Chat == ChatWithAi("chat", {"message"}, {"message"})

\* POST /chat/interests
ChatInterests == ChatWithAi("chat_interests", {"message", "history"}, {"message", "history"})

\* the query parameter limit of GET /news/headlines (default 5, not validated)
HeadlineLimits == {1, MinLimit}

\* the list get_headlines builds from the provider's answer: of the first
\* `limit` raw articles, those with a title, formatted, each with a new uuid
HeadlineArticles(raw, l, first_id) ==
    LET titled == SelectSeq(SubSeq(raw, 1, Min(l, Len(raw))), LAMBDA r : r.title)
    IN [k \in 1..Len(titled) |->
          NewsArticle(first_id + k, titled[k].url, "title",
                      IF titled[k].body THEN "description" ELSE "none",
                      IF titled[k].body THEN "content" ELSE "none",
                      IF titled[k].image THEN "orig" ELSE "none")]

\* GET /news/headlines: _require_auth only (the token is not resolved), then
\* get_top_headlines inside try; except ValueError -> 400, except Exception
\* -> 500
GetHeadlines ==
    /\ pc = "idle"
    /\ \E a \in Authorizations : \E l \in HeadlineLimits : \E status \in ProviderStatuses :
          /\ limit' = l
          /\ CASE Authenticate(a) = "no_token" ->
                  /\ Answer("get_headlines", a, {}, ErrorResponse(401), <<>>)
                  /\ UNCHANGED uuidCount
               [] status # 200 ->
                  /\ Answer("get_headlines", a, {},
                            ExceptClause(NewsApiError(status)), <<"news">>)
                  /\ UNCHANGED uuidCount
               [] OTHER ->
                  \E n \in 0..MaxRaw : \E raw \in RawLists(n) :
                     /\ Answer("get_headlines", a, {},
                               Returned(HeadlineArticles(raw, l, uuidCount)), <<"news">>)
                     /\ uuidCount' = uuidCount + Len(HeadlineArticles(raw, l, uuidCount))
    /\ UNCHANGED <<exc, topic, annotations, prepared, extracted, user_id, preferences>>
    /\ UNCHANGED <<srcVars, scoreVars, listVars, imageVars>>
    /\ UNCHANGED <<table, clients, rp, loaded, calls>>

\* GET /user/preferences
GetUserPreferences ==
    /\ pc = "idle"
    /\ \E a \in Authorizations :
          CASE Authenticate(a) = "no_token" ->
                  Answer("get_user_preferences", a, {}, ErrorResponse(401), <<>>)
                  /\ UNCHANGED user_id
            [] Authenticate(a) = "no_session" ->
                  Answer("get_user_preferences", a, {}, ErrorResponse(401), <<"sessions">>)
                  /\ UNCHANGED user_id
            [] OTHER ->
                  Answer("get_user_preferences", a, {}, Returned(<<>>),
                         <<"sessions", "user_preferences">>)
                  /\ user_id' = a
    /\ UNCHANGED preferences
    /\ HandlerFrame

\* POST /user/preferences: _require_auth, _get_user_id_from_token, then
\* `if not ai_profile: raise HTTPException(400)`, then the upsert
SaveUserPreferences ==
    /\ pc = "idle"
    /\ \E a \in Authorizations : \E fields \in SUBSET {"ai_profile", "interests"} :
          CASE Authenticate(a) = "no_token" ->
                  /\ Answer("save_user_preferences", a, fields, ErrorResponse(401), <<>>)
                  /\ UNCHANGED <<user_id, preferences>>
            [] Authenticate(a) = "no_session" ->
                  /\ Answer("save_user_preferences", a, fields, ErrorResponse(401),
                            <<"sessions">>)
                  /\ UNCHANGED <<user_id, preferences>>
            [] "ai_profile" \notin fields ->
                  /\ Answer("save_user_preferences", a, fields, ErrorResponse(400),
                            <<"sessions">>)
                  /\ user_id' = a
                  /\ UNCHANGED preferences
            [] OTHER ->
                  /\ Answer("save_user_preferences", a, fields, Returned(<<>>),
                            <<"sessions", "user_preferences">>)
                  /\ user_id' = a
                  /\ preferences' = IF "interests" \in fields THEN "keywords" ELSE "plain"
    /\ HandlerFrame

\* POST /user/preferences/complete: _require_auth, _get_user_id_from_token,
\* then the test of history, then the LLM summary and the upsert
CompleteUserPreferences ==
    /\ pc = "idle"
    /\ \E a \in Authorizations : \E fields \in SUBSET {"history"} :
       \E llm \in {"profile", "no_profile", "raise"} :
          CASE Authenticate(a) = "no_token" ->
                  /\ Answer("complete_user_preferences", a, fields, ErrorResponse(401), <<>>)
                  /\ UNCHANGED <<user_id, preferences>>
            [] Authenticate(a) = "no_session" ->
                  /\ Answer("complete_user_preferences", a, fields, ErrorResponse(401),
                            <<"sessions">>)
                  /\ UNCHANGED <<user_id, preferences>>
            [] "history" \notin fields ->
                  /\ Answer("complete_user_preferences", a, fields, ErrorResponse(400),
                            <<"sessions">>)
                  /\ user_id' = a
                  /\ UNCHANGED preferences
            [] llm \in {"no_profile", "raise"} ->
                  /\ Answer("complete_user_preferences", a, fields, ErrorResponse(500),
                            <<"sessions", "llm">>)
                  /\ user_id' = a
                  /\ UNCHANGED preferences
            [] OTHER ->
                  /\ Answer("complete_user_preferences", a, fields, Returned(<<>>),
                            <<"sessions", "llm", "user_preferences">>)
                  /\ user_id' = a
                  /\ preferences' = "keywords"
    /\ HandlerFrame

----------------------------------------------------------------------------
(* Specification of the other handlers: one request, on a store that holds  *)
(* what earlier curation runs left.                                         *)

\* how an earlier run left a row: with the provider's short content, with
\* full content (more than 500 characters), or without url
StoredKinds == {"short", "full", "no_url"}

StoredRow(u, id, kind) ==
    InsertRow(<<>>, u,
              NewsArticle(id, IF kind = "no_url" THEN NoUrl ELSE id, "title", "description",
                          IF kind = "full" THEN "full" ELSE "content", "orig"))[1]

StoredTables ==
    UNION {{<<OtherUserRow>> \o [k \in 1..n |-> StoredRow("u1", k, f[k])] :
                f \in [1..n -> StoredKinds]} : n \in PriorSizes}

InitOps ==
    /\ CurateIdle
    /\ annotations = "eager"
    /\ table \in StoredTables
    /\ uuidCount = Len(table) - 1
    /\ clients = {"api"}
    /\ rp = [c \in ClientIds |-> IdleCall]
    /\ loaded = NotLoaded
    /\ calls = <<>>

NextOps ==
    \/ GetCuratedNews
    \/ GetFullArticleFromUrl
    \/ PrepareArticles
    \/ ExtractAndUpdateArticle
    \/ PrepareReturn
    \/ AuthGoogle
    \/ AuthApple
    \/ Me
    \/ Chat
    \/ ChatInterests
    \/ GetHeadlines
    \/ GetUserPreferences
    \/ SaveUserPreferences
    \/ CompleteUserPreferences

SpecOps == InitOps /\ [][NextOps]_vars

----------------------------------------------------------------------------
(* Properties of the selection policy *)

\* a precedes b in the order of the sort: higher score first, and for equal
\* scores the one the provider listed first (the smaller id)
Before(a, b) ==
    \/ a._relevance_score > b._relevance_score
    \/ a._relevance_score = b._relevance_score /\ a.id < b.id

SelectionDone == pc \in {"selected", "stripped"}

\* number of selected articles at the head of the curated list
NumPicked ==
    Min(Cardinality({i \in 1..Len(analyzed_articles) : analyzed_articles[i]._is_selected}),
        TargetCount(limit, analyzed_articles))

C3_NoDuplicates ==
    SelectionDone =>
        /\ \A i \in 1..Len(curated_articles) : \A j \in 1..Len(curated_articles) :
              curated_articles[i].id = curated_articles[j].id => i = j
        /\ \A i \in 1..Len(final_articles) : \A j \in 1..Len(final_articles) :
              final_articles[i].id = final_articles[j].id => i = j

\* C3 witness: the fill-in step ran after some selected articles were taken.
C3_Witness ==
    /\ pc = "stripped"
    /\ Len(final_articles) > 1
    /\ curated_articles[1]._is_selected
    /\ ~curated_articles[Len(curated_articles)]._is_selected

----------------------------------------------------------------------------
(* Properties of the store *)

\* the last store-replace call made for user u (0 when there is none)
LastCall(u) ==
    LET ks == {k \in 1..Len(calls) : calls[k].user_id = u}
    IN IF ks = {} THEN 0 ELSE CHOOSE k \in ks : \A j \in ks : j <= k

\* C5: replace semantics.  With one server process, once a store-replace call
\* has returned, the rows of its user are exactly the articles of that call,
\* one row each (nothing of an earlier set remains, also when the new set is
\* empty), and the rows of the other users are the articles of their last
\* call.
C5_ReplaceSemantics ==
    \A u \in Users :
        LET k == LastCall(u)
        IN (k # 0 /\ calls[k].status = "returned") =>
              /\ RowIds(table, u) = calls[k].ids
              /\ Len(UserRows(table, u)) = Cardinality(calls[k].ids)

\* C5 witness: replace with a non-empty set A, then with a non-empty set B for
\* the same user, both returned.
C5_Witness ==
    /\ Len(calls) >= 2
    /\ calls[1].user_id = calls[2].user_id
    /\ calls[1].status = "returned" /\ calls[2].status = "returned"
    /\ calls[1].ids # {} /\ calls[2].ids # {}

\* C6: at most one curated set per user.  Whenever no store-replace is in
\* progress for a user and none of the calls for that user has failed, the
\* rows of the user are exactly the set of one single call (or there are no
\* rows, when no call was made), whatever the interleaving of the calls.
C6_OneSetPerUser ==
    \A u \in Users :
        (/\ Running(u) = {}
         /\ \A k \in 1..Len(calls) : calls[k].user_id = u => calls[k].status = "returned")
        => \/ LastCall(u) = 0 /\ RowIds(table, u) = {}
           \/ \E k \in 1..Len(calls) :
                 calls[k].user_id = u /\ RowIds(table, u) = calls[k].ids

\* C7: atomic swap for readers.  A load made while one store-replace of a
\* stored non-empty set A by a non-empty set B is in progress (and no other
\* call for that user overlaps it) returns all of A or all of B.
C7_AtomicSwap ==
    (loaded # NotLoaded /\ Cardinality(loaded.during) = 1) =>
        LET k == CHOOSE j \in loaded.during : TRUE
        IN (/\ k = LastCall(loaded.user_id)
            /\ ~calls[k].overlapped
            /\ calls[k].ids # {}
            /\ calls[k].before # {}
            /\ \E j \in 1..(k - 1) :
                  /\ calls[j].user_id = loaded.user_id
                  /\ calls[j].status = "returned"
                  /\ calls[j].ids = calls[k].before)
           => Ids(loaded.articles) \in {calls[k].before, calls[k].ids}

----------------------------------------------------------------------------
(* Properties of the curate_news handler *)

\* the scoring loop of the run is over
ScoringEnded == valid_articles # <<>> /\ batch_start >= Len(valid_articles)

\* C1: selection size bound.  A run whose scoring loop ended with N scored
\* articles returns min(max(5, min(10, limit)), N) articles when N > 0 and
\* returns no article (an empty list) when N = 0.
C1_SelectionSizeBound ==
    (pc = "done" /\ ScoringEnded) =>
        /\ response.kind = "return"
        /\ Len(response.body) =
              IF Len(analyzed_articles) > 0
              THEN Min(Max(5, Min(10, limit)), Len(analyzed_articles))
              ELSE 0

\* the scored articles that come from the j-th valid article
ScoredFrom(j) ==
    {k \in 1..Len(analyzed_articles) : analyzed_articles[k].url = valid_articles[j].url}

\* C4: scoring isolation.  For every article of a batch that was gathered,
\* the scored list holds what that article's own scoring gave: score 0 and
\* not selected when the LLM call or the parsing of its answer failed, the
\* answer of the LLM otherwise, whatever happened to the other articles of
\* the batch.
C4_ScoringIsolation ==
    \A j \in 1..Len(outcomes) :
        LET o == outcomes[j]
        IN (o.kind \in {"raise", "ok"}) =>
              /\ Cardinality(ScoredFrom(j)) = 1
              /\ \A k \in ScoredFrom(j) :
                    /\ analyzed_articles[k]._relevance_score =
                          (IF o.kind = "raise" THEN 0 ELSE o.score)
                    /\ analyzed_articles[k]._is_selected =
                          (IF o.kind = "raise" THEN FALSE ELSE o.selected)

\* C4 witness: a batch of two articles, the scoring of the first failed, the
\* second was scored by the LLM, and both are in the scored list.
C4_Witness ==
    /\ pc = "scored"
    /\ Len(outcomes) = 2
    /\ outcomes[1].kind = "raise"
    /\ outcomes[2].kind = "ok"
    /\ Len(analyzed_articles) = 2

\* the run found no article in the search nor in the fallback and raised the
\* 404 of main.py:1059
UpstreamEmpty == pc = "done" /\ exc = HTTPException(404)

\* C8: upstream-empty is a distinct reported condition.  A run that found no
\* candidate answers with the not-found error (404), not with the generic
\* internal error (500) nor with a list.
C8_UpstreamEmptyDistinct ==
    UpstreamEmpty => response = ErrorResponse(404)

\* the store is as it was when the request arrived and no store-replace ran
StoreUntouched == table = stored_before /\ calls = <<>>

\* C9: store untouched on upstream-empty.  A run that found no candidate
\* reports the upstream-empty error (404) and leaves the store as it was.
C9_UpstreamEmptyStoreUntouched ==
    UpstreamEmpty => (response = ErrorResponse(404) /\ StoreUntouched)

\* the part of C9 about the store alone
C9_StoreFrame ==
    UpstreamEmpty => StoreUntouched

\* C10: persistence failure is non-fatal.  When the store-replace of a run
\* raised, the run still returns the list it handed to the store, and no
\* error.
C10_PersistFailureNonFatal ==
    (pc = "done" /\ rp["api"].pc = "raised") =>
        /\ response = Returned(final_articles)
        /\ response.body = rp["api"].articles

\* C10 witness: the store-replace of a list of two articles raised after its
\* DELETE, and the run is over.
C10_Witness ==
    /\ pc = "done"
    /\ rp["api"].pc = "raised"
    /\ Len(rp["api"].articles) = 2
    /\ Len(table) < Len(stored_before)

\* C11: zero scored articles is not an error.  A run whose scoring loop
\* ended with no scored article (every analysis failed or every batch was
\* skipped) returns a zero-length list; it raises nothing and reports no
\* error.
C11_ZeroScoredNotError ==
    (ScoringEnded /\ analyzed_articles = <<>> /\ pc \in {"except", "done"}) =>
        /\ exc = NoException
        /\ response = Returned(<<>>)

\* C12: secondary source on empty search.  Whatever the topic and the
\* profile, a run gives up with the upstream-empty error only after one
\* search and exactly one top-headlines fetch.
C12_SecondarySource ==
    exc = HTTPException(404) =>
        /\ Len(news_calls) = 2
        /\ news_calls[1].fn = "search_everything"
        /\ news_calls[2].fn = "get_top_headlines"

\* the selection of the run holds an article without image_url
SomeImageMissing ==
    \E k \in 1..Len(curated_articles) : curated_articles[k].image_url = "none"

\* the final list holds every article of the selection, in its order
FullFinalList(final) ==
    /\ Len(final) = Len(curated_articles)
    /\ \A k \in 1..Len(final) : final[k].id = curated_articles[k].id

\* C13: image enrichment is never fatal.  A run whose final list has an
\* article without image_url returns the full final list and hands it to the
\* store, an article for which no image was found keeping its absent
\* image_url.
C13_ImageEnrichmentNonFatal ==
    (pc = "done" /\ SomeImageMissing) =>
        /\ response.kind = "return"
        /\ FullFinalList(response.body)
        /\ Len(calls) = 1
        /\ calls[1].ids = Ids(response.body)
        /\ \A k \in 1..Len(response.body) :
              (curated_articles[k].image_url = "none"
                  /\ response.body[k].id \notin DOMAIN image_results)
              => response.body[k].image_url = "none"

\* the part of C13 that holds: the same when the annotations of the nested
\* function are not evaluated
C13_WhenAnnotationsDeferred ==
    annotations = "deferred" => C13_ImageEnrichmentNonFatal

\* an article of the returned list is still without image
C13_DeferredCase ==
    /\ annotations = "deferred"
    /\ pc = "done"
    /\ response.kind = "return"
    /\ \E k \in 1..Len(response.body) : response.body[k].image_url = "none"

----------------------------------------------------------------------------
(* Properties of the other handlers *)

\* an authenticated request for `name` has been answered
Answered(name) == op = name /\ pc = "done" /\ Authenticate(authorization) = "ok"

\* C14: empty-is-valid.  For a user without stored rows the load gives the
\* empty list, and get_curated_news answers with the empty list, not with an
\* error.
C14_EmptyIsValid ==
    (Answered("get_curated_news") /\ UserRows(table, authorization) = <<>>) =>
        /\ loaded.articles = <<>>
        /\ response = Returned(<<>>)

\* C14 witness: the load ran for a user without rows while another user has
\* rows, and the handler has answered.
C14_Witness ==
    /\ Answered("get_curated_news")
    /\ UserRows(table, authorization) = <<>>
    /\ table # <<>>
    /\ loaded # NotLoaded
    /\ response.kind = "return"

\* C15: curated set lifecycle.  No handler other than curate_news changes a
\* row of the curated-articles table: while and after such a handler serves
\* a request the table is what it was when the request arrived.
C15_CuratedSetLifecycle ==
    (op \notin {"none", "curate_news"}) => table = stored_before

\* the part of C15 that holds: every handler but prepare_articles leaves the
\* table as it was
C15_ReadOnlyHandlers ==
    (op \notin {"none", "curate_news", "prepare_articles"}) => table = stored_before

----------------------------------------------------------------------------
(* Properties of the news provider adapter *)

\* C16: rate limit is a distinct error kind.  Of the provider calls of a run,
\* one answered with the rate-limit status and one that failed otherwise
\* raise errors of different kinds (exception types).
C16_RateLimitDistinct ==
    \A i \in 1..Len(news_calls) : \A j \in 1..Len(news_calls) :
        (news_calls[i].status = 429 /\ news_calls[j].status \notin {200, 429}) =>
            news_calls[i].error.type # news_calls[j].error.type

----------------------------------------------------------------------------
(* Properties of the extraction and of the request validation *)

\* the extraction met one of the failures the best-effort contract names: no
\* tool call, a failed page fetch, an LLM call that raised
ExtractionFailed(o) ==
    \/ o.first \in {"raise", "no_tool_call"}
    \/ o.fetch = "fail"
    \/ o.second = "raise"

\* C17: best-effort extraction never raises.  Every extraction returns the
\* structure and raises nothing; when the model issued no tool call, the page
\* fetch failed or an LLM call raised, the structure is the minimal one; and
\* get_full_article_from_url then answers with an article, not an error.
C17_ExtractionNeverRaises ==
    (extracted # NotExtracted) =>
        /\ ~extracted.raised
        /\ ExtractionFailed(extracted.outcome) => extracted.result = EmptyExtraction
        /\ Answered("get_full_article_from_url") => response.kind = "return"

\* the part of C17 that holds: without a tool call, or when the fetch failed
\* and the second answer is not usable, the minimal structure is returned
C17_MinimalWithoutToolCall ==
    (extracted # NotExtracted
       /\ \/ extracted.outcome.first \in {"no_tool_call", "other_tool"}
          \/ extracted.outcome.fetch = "fail"
               /\ extracted.outcome.second \in {"not_json", "no_keys"}) =>
        /\ ~extracted.raised
        /\ extracted.result = EmptyExtraction

\* the request field a handler requires
RequiredField ==
    [auth_google |-> "id_token", auth_apple |-> "identity_token", chat |-> "message",
     save_user_preferences |-> "ai_profile", complete_user_preferences |-> "history"]

\* a handler with a required field has answered a request without it; the
\* request carries a valid session where the handler asks for one
MissingRequiredField ==
    /\ pc = "done"
    /\ op \in DOMAIN RequiredField
    /\ RequiredField[op] \notin payload
    /\ op \in {"auth_google", "auth_apple"} \/ Authenticate(authorization) = "ok"

\* C18: invalid input is rejected first.  A request without the required
\* field is answered with the invalid-input error (400) and no collaborator
\* was called before.
C18_InvalidInputFirst ==
    MissingRequiredField =>
        /\ response = ErrorResponse(400)
        /\ external_calls = <<>>

\* the part of C18 that holds: the answer is the invalid-input error, and
\* auth_google, auth_apple and chat call no collaborator before it
C18_InvalidInputRejected ==
    MissingRequiredField =>
        /\ response = ErrorResponse(400)
        /\ op \in {"auth_google", "auth_apple", "chat"} => external_calls = <<>>

----------------------------------------------------------------------------
(* Properties of what leaves the curate_news handler *)

\* the fields of the NewsArticle model
CanonicalFields ==
    {"id", "title", "summary", "content", "author", "source", "image_url", "url",
     "published_at", "category"}

\* C19: field stripping.  Every article that curate_news returns and every
\* article it hands to the store-replace has exactly the canonical fields,
\* so neither the relevance score nor the selected flag; no stored row has
\* these two either.
C19_FieldStripping ==
    /\ response.kind = "return" =>
          \A k \in 1..Len(response.body) : DOMAIN response.body[k] = CanonicalFields
    /\ \A k \in 1..Len(rp["api"].articles) :
          DOMAIN rp["api"].articles[k] = CanonicalFields
    /\ \A k \in 1..Len(table) :
          {"_relevance_score", "_is_selected"} \cap DOMAIN table[k] = {}

\* C19 witness: two scored articles, which carry the internal fields, were
\* selected, stored and returned.
C19_Witness ==
    /\ pc = "done"
    /\ response.kind = "return"
    /\ Len(response.body) = 2
    /\ rp["api"].pc = "returned"
    /\ Len(rp["api"].articles) = 2
    /\ \A k \in 1..Len(curated_articles) :
          {"_relevance_score", "_is_selected"} \subseteq DOMAIN curated_articles[k]

----------------------------------------------------------------------------
(* Properties of the pre-filter *)

\* positions of the raw articles with a title, and of those that also have a
\* description or body text
Titled == {k \in 1..Len(articles) : articles[k].title}
Complete == {k \in Titled : articles[k].body}

\* the first five positions of Titled
FirstFiveTitled == {k \in Titled : Cardinality({j \in Titled : j <= k}) <= 5}

\* valid_articles holds the raw articles at the positions ks, in provider order
ScoredCandidatesAre(ks) ==
    /\ Len(valid_articles) = Cardinality(ks)
    /\ {valid_articles[i].url : i \in 1..Len(valid_articles)} = {articles[k].url : k \in ks}
    /\ \A i \in 1..Len(valid_articles) : valid_articles[i] = articles[valid_articles[i].url]
    /\ \A i \in 1..Len(valid_articles) : \A j \in 1..Len(valid_articles) :
          i < j => valid_articles[i].url < valid_articles[j].url

\* C20: pre-filter fallback.  Once the pre-filter has run, the candidates to
\* score are the raw articles with a title and a description or body; when
\* there is none, the first 5 articles with a title; when there is none
\* either, the run has returned the empty list and no error.
C20_PrefilterFallback ==
    (pc # "prefilter") =>
        IF Complete # {} THEN pc = "scoring" /\ ScoredCandidatesAre(Complete)
        ELSE IF Titled # {} THEN pc = "scoring" /\ ScoredCandidatesAre(FirstFiveTitled)
        ELSE /\ valid_articles = <<>>
             /\ pc = "done"
             /\ response = Returned(<<>>)
             /\ exc = NoException

\* C20 witness: six raw articles, all with a title and none with a
\* description or body; five are to be scored.
C20_Witness ==
    /\ pc = "scoring"
    /\ Complete = {}
    /\ Cardinality(Titled) = 6
    /\ Len(valid_articles) = 5

\* what the scoring loop has handled are candidates of the pre-filter, in
\* their order (invariant of the handler specification)
C20_OnlyCandidatesScored ==
    /\ Len(outcomes) <= Len(valid_articles)
    /\ \A k \in 1..Len(analyzed_articles) :
          \E j \in 1..Len(outcomes) : analyzed_articles[k].url = valid_articles[j].url
----------------------------------------------------------------------------
(* Termination of a curation run *)

Started == pc # "idle"

\* the run has ended: with a list of articles or with an error response
Terminated == pc = "done" /\ response.kind \in {"return", "error"}

\* C21: once a curation request has started, and every external call returns
\* or fails, the run ends: it returns a list of articles or reports an
\* error; it never stays blocked and the batch loops finish.
C21_Termination == Started ~> Terminated

\* a run with two passes of the scoring loop and two passes of the image
\* loop has stored and returned its list
C21_Witness ==
    /\ Terminated
    /\ response.kind = "return"
    /\ response.body # <<>>
    /\ batch_start = 2 * BatchSize
    /\ image_start = 2 * ImageBatchSize
    /\ rp["api"].pc = "returned"

\* C21, for the whole handler from the arrival of the request: a run that
\* has not ended always has a step to take.
C21_NeverBlocked == Terminated \/ ENABLED Next

----------------------------------------------------------------------------
(* Properties of the sourcing *)

\* the step calls the news provider's function fn
CallsProvider(fn) ==
    /\ Len(news_calls') = Len(news_calls) + 1
    /\ news_calls'[Len(news_calls')].fn = fn

\* C22: no automatic retry beyond the one substitution.  In a run the news
\* provider is called at most twice: at most one search, then at most one
\* top-headlines fetch, and the top-headlines fetch is made only after the
\* search, when the search has left no candidate.
C22_NoRetryBeyondSubstitution ==
    [][/\ Len(news_calls') <= 2
       /\ CallsProvider("search_everything") => news_calls = <<>>
       /\ CallsProvider("get_top_headlines") =>
             /\ Len(news_calls) = 1
             /\ news_calls[1].fn = "search_everything"
             /\ articles = <<>>]_vars

\* the substitution happened: an empty search, then top headlines that gave
\* candidates
C22_Witness ==
    /\ Len(news_calls) = 2
    /\ news_calls[1].fn = "search_everything"
    /\ news_calls[1].status = 200
    /\ news_calls[2].fn = "get_top_headlines"
    /\ articles # <<>>
    /\ pc = "done"

----------------------------------------------------------------------------
(* Properties of the fan-outs *)

\* the scoring loop has been left
ScoringLeft == pc \notin {"scoring", "gather"}

\* the groups of the scoring loop: the g-th holds the valid articles
\* (g-1)*BatchSize+1 .. g*BatchSize
NumGroups == (Len(valid_articles) + BatchSize - 1) \div BatchSize
GroupOf(j) == (j - 1) \div BatchSize + 1

\* the group failed as a whole
GroupLost(g) == \E j \in 1..Len(outcomes) : GroupOf(j) = g /\ outcomes[j] = Lost

\* C23: a group failure skips only that group.  The articles of a group
\* whose gather raised are not in the scored list; every article of another
\* group that was scored is in it, whether its group came before or after;
\* and the loop is left only when every group has been submitted.
C23_GroupFailureSkipsOnlyGroup ==
    /\ \A j \in 1..Len(outcomes) :
          /\ outcomes[j] = Lost => ScoredFrom(j) = {}
          /\ outcomes[j].kind \in {"raise", "ok"} => Cardinality(ScoredFrom(j)) = 1
    /\ ScoringLeft =>
          /\ Len(in_flight.score) = NumGroups
          /\ Len(outcomes) = Len(valid_articles)

\* of three groups the second failed as a whole: the articles of the first
\* and of the third are in the scored list
C23_Witness ==
    /\ ScoringLeft
    /\ NumGroups = 3
    /\ ~GroupLost(1) /\ GroupLost(2) /\ ~GroupLost(3)
    /\ \A j \in 1..Len(valid_articles) : GroupOf(j) # 2 => Cardinality(ScoredFrom(j)) = 1
    /\ Len(analyzed_articles) = Len(valid_articles) - BatchSize

\* the sum of a sequence of numbers
RECURSIVE SumSeq(_)
SumSeq(s) == IF s = <<>> THEN 0 ELSE Head(s) + SumSeq(Tail(s))

\* every group before the last one submitted has no call running
EarlierGroupsCompleted(running) ==
    \A g \in 1..Len(running) : g < Len(running) => running[g] = 0

\* the positions of the handler from the selection on, and from the store
\* write on
SelectionStarted ==
    pc \in {"sorted", "selected", "stripped", "images", "gather_images", "persist",
            "persisting", "done"}
PersistenceStarted == pc \in {"persist", "persisting", "done"}

\* C24: bounded fan-out with join.  At any instant at most BatchSize scoring
\* calls and at most ImageBatchSize image calls are running; when a group
\* has been submitted every call of the groups before it has completed; the
\* selection starts only when no scoring call is running, and the store
\* write only when no image call is running.
C24_BoundedFanOutWithJoin ==
    /\ SumSeq(in_flight.score) <= BatchSize
    /\ SumSeq(in_flight.image) <= ImageBatchSize
    /\ EarlierGroupsCompleted(in_flight.score)
    /\ EarlierGroupsCompleted(in_flight.image)
    /\ SelectionStarted => SumSeq(in_flight.score) = 0
    /\ PersistenceStarted => SumSeq(in_flight.image) = 0

\* the part of C24 that holds: the calls of a group are at most BatchSize
\* (ImageBatchSize), the image groups are joined, and as long as no scoring
\* group has failed the scoring groups are joined too
C24_JoinedUnlessGroupFailed ==
    /\ \A g \in 1..Len(in_flight.score) : in_flight.score[g] <= BatchSize
    /\ SumSeq(in_flight.image) <= ImageBatchSize
    /\ EarlierGroupsCompleted(in_flight.image)
    /\ PersistenceStarted => SumSeq(in_flight.image) = 0
    /\ (\A j \in 1..Len(outcomes) : outcomes[j] # Lost) =>
          /\ SumSeq(in_flight.score) <= BatchSize
          /\ EarlierGroupsCompleted(in_flight.score)
          /\ SelectionStarted => SumSeq(in_flight.score) = 0

\* more than BatchSize scoring calls are running
C24_MoreThanBatchSizeRunning == SumSeq(in_flight.score) > BatchSize

\* the selection has started while scoring calls are running
C24_SelectionBeforeJoin == SelectionStarted /\ SumSeq(in_flight.score) > 0

\* what the claim gives for an image search with candidates: the candidate
\* at the index the LLM chose when it is within range, the first candidate
\* otherwise
ExpectedImage(o) ==
    IF o.kind = "index" /\ o.index >= 0 /\ o.index < Len(o.candidates)
    THEN o.candidates[o.index + 1]
    ELSE o.candidates[1]

\* the call of find_image_for_article for the article has returned, and its
\* image search gave candidates
SearchGaveCandidates(id) ==
    id \in DOMAIN returned.images /\ returned.images[id].candidates # <<>>

\* C25: image choice fallback.  Once the enrichment is over, an article that
\* had no image_url and whose image search gave candidates has the candidate
\* at the LLM's index when the index is within range and the first candidate
\* when the LLM answered -1, an index out of range, or failed; an article
\* that had an image_url keeps it.
C25_ImageChoiceFallback ==
    PersistenceStarted =>
        \A k \in 1..Len(final_articles) :
            LET a == final_articles[k]
                had == curated_articles[k].image_url
            IN /\ a.id = curated_articles[k].id
               /\ had # "none" => a.image_url = had
               /\ (had = "none" /\ SearchGaveCandidates(a.id)) =>
                     a.image_url = ExpectedImage(returned.images[a.id])

\* the final list holds an article that kept its image, one that got the
\* candidate the LLM chose, and one that got the first candidate because the
\* LLM call failed
C25_Witness ==
    /\ PersistenceStarted
    /\ \E k \in 1..Len(final_articles) :
          curated_articles[k].image_url = "orig" /\ final_articles[k].image_url = "orig"
    /\ \E k \in 1..Len(final_articles) :
          /\ SearchGaveCandidates(final_articles[k].id)
          /\ returned.images[final_articles[k].id].kind = "index"
          /\ returned.images[final_articles[k].id].index = 1
          /\ final_articles[k].image_url = "c1"
    /\ \E k \in 1..Len(final_articles) :
          /\ SearchGaveCandidates(final_articles[k].id)
          /\ returned.images[final_articles[k].id].kind = "raise"
          /\ final_articles[k].image_url = "c0"

----------------------------------------------------------------------------
(* Properties of the scores *)

\* C26: score range invariant.  Every article of the scored list has a
\* relevance score within [0,1] (0..10 tenths), whatever the LLM answered;
\* and an article whose scoring failed has score 0 and is not selected.
C26_ScoreRange ==
    /\ \A k \in 1..Len(analyzed_articles) :
          /\ analyzed_articles[k]._relevance_score >= 0
          /\ analyzed_articles[k]._relevance_score <= 10
    /\ \A j \in 1..Len(outcomes) :
          outcomes[j].kind = "raise" =>
             \A k \in ScoredFrom(j) :
                /\ analyzed_articles[k]._relevance_score = 0
                /\ ~analyzed_articles[k]._is_selected

\* the part of C26 that holds: a scoring failure gives score 0 and
\* is_selected false
C26_FailureDefaults ==
    \A j \in 1..Len(outcomes) :
        outcomes[j].kind = "raise" =>
           \A k \in ScoredFrom(j) :
              /\ analyzed_articles[k]._relevance_score = 0
              /\ ~analyzed_articles[k]._is_selected

\* a score above 1 has reached the selection policy and the article is in
\* the selection
C26_ScoreAboveOneSelected ==
    /\ pc = "selected"
    /\ \E k \in 1..Len(curated_articles) : curated_articles[k]._relevance_score > 10

----------------------------------------------------------------------------
(* Properties of the extraction protocol *)

\* the positions of the calls of one kind in the calls of the extraction
CallsOf(kind) == {i \in 1..Len(extracted.calls) : extracted.calls[i].call = kind}

\* C27: order of the two-round extraction protocol.  An extraction makes at
\* most one page fetch and at most two LLM calls; the page fetch comes only
\* after a first LLM call that asked for the fetch tool; the second LLM call
\* comes only after the page fetch has ended, well or not, and is given its
\* result.
C27_ExtractionProtocolOrder ==
    LET cs == extracted.calls
    IN /\ Cardinality(CallsOf("fetch")) <= 1
       /\ Cardinality(CallsOf("llm")) <= 2
       /\ \A i \in CallsOf("fetch") :
             /\ i = 2
             /\ cs[1].call = "llm" /\ cs[1].round = 1
             /\ extracted.outcome.first = "tool_call"
       /\ \A i \in CallsOf("llm") :
             \/ i = 1 /\ cs[i].round = 1
             \/ /\ i = 3 /\ cs[i].round = 2
                /\ cs[2].call = "fetch"
                /\ cs[i].input = (IF extracted.outcome.fetch = "ok" THEN "page"
                                  ELSE "fetch error")

\* an extraction whose page fetch failed has made its second LLM call
C27_Witness ==
    /\ Len(extracted.calls) = 3
    /\ extracted.outcome.fetch = "fail"
    /\ extracted.calls[3].call = "llm"
    /\ op = "get_full_article_from_url"
    /\ pc = "done"

----------------------------------------------------------------------------
(* Properties of the returned list and the stored set *)

\* curate_news has returned a list and no statement of store-replace failed
ReturnedWithoutStoreFailure ==
    /\ pc = "done"
    /\ response.kind = "return"
    /\ rp["api"].pc # "raised"

\* C28: the returned list equals the persisted list.  When curate_news has
\* returned a list without error and the store write did not fail, a load
\* for the same user gives as many articles as were returned, with the same
\* ids, on every return path, the ones that return the empty list included.
C28_ReturnedEqualsPersisted ==
    ReturnedWithoutStoreFailure =>
        /\ Len(LoadUserArticles(table, user_id)) = Len(response.body)
        /\ Ids(LoadUserArticles(table, user_id)) = Ids(response.body)

\* on the return path that went through store-replace the two lists agree
C28_EqualAfterReplace ==
    (ReturnedWithoutStoreFailure /\ rp["api"].pc = "returned") =>
        /\ Len(LoadUserArticles(table, user_id)) = Len(response.body)
        /\ Ids(LoadUserArticles(table, user_id)) = Ids(response.body)

\* curate_news returned the empty list and the user's earlier set is still stored
C28_EmptyReturnedPriorKept ==
    /\ ReturnedWithoutStoreFailure
    /\ response.body = <<>>
    /\ UserRows(table, user_id) # <<>>

----------------------------------------------------------------------------
(* Properties of a store-replace that fails *)

\* the last call of store-replace for user u has ended with an exception
LastReplaceRaised(u) ==
    /\ LastCall(u) # 0
    /\ calls[LastCall(u)].status = "raised"

\* C29: a failed replace is all-or-nothing.  With one server process, when
\* the last store-replace of a user has raised (in its DELETE or in one of
\* its inserts), the rows of that user are the complete set stored before
\* the call or the complete set of the call.
C29_FailedReplaceAllOrNothing ==
    \A u \in Users :
        LastReplaceRaised(u) =>
            RowIds(table, u) \in {calls[LastCall(u)].before, calls[LastCall(u)].ids}

\* an insert failed right after the DELETE: the user had a set, was given a
\* new one, and has no row left
C29_EmptyByAccident ==
    \E u \in Users :
        /\ LastReplaceRaised(u)
        /\ calls[LastCall(u)].before # {}
        /\ calls[LastCall(u)].ids # {}
        /\ RowIds(table, u) = {}

\* a later insert failed: some but not all of the new articles are stored
C29_StrictPrefix ==
    \E u \in Users :
        /\ LastReplaceRaised(u)
        /\ RowIds(table, u) # {}
        /\ RowIds(table, u) # calls[LastCall(u)].ids
        /\ RowIds(table, u) \subseteq calls[LastCall(u)].ids

----------------------------------------------------------------------------
(* Properties of the bearer check *)

\* the operations behind the bearer check that call a provider
BearerOps ==
    {"chat", "chat_interests", "get_headlines", "get_full_article_from_url",
     "prepare_articles"}

\* the collaborators that are the LLM, the news and the image provider
Providers == {"llm", "news", "image"}

\* the providers the handler has called
ProvidersCalled == {external_calls[i] : i \in 1..Len(external_calls)} \cap Providers

\* C30: authenticated-only external work.  An operation behind the bearer
\* check calls the LLM, the news or the image provider only when the bearer
\* token resolves to an existing, unexpired session; a request whose token
\* is well formed but unknown is answered 401 and no provider was called.
C30_AuthenticatedOnlyExternalWork ==
    (pc = "done" /\ op \in BearerOps /\ Authenticate(authorization) # "ok") =>
        /\ ProvidersCalled = {}
        /\ response = ErrorResponse(401)

\* a request with a well-formed token of no session has reached a provider
C30_UnknownTokenReachedProvider ==
    /\ pc = "done"
    /\ op \in BearerOps
    /\ Authenticate(authorization) = "no_session"
    /\ ProvidersCalled # {}

\* prepare-articles resolves the session first: without a session it calls
\* no provider and answers 401
C30_PrepareArticlesAuthenticated ==
    (op = "prepare_articles" /\ Authenticate(authorization) # "ok" /\ pc # "idle") =>
        /\ ProvidersCalled = {}
        /\ extracted = NotExtracted
        /\ pc = "done" /\ response = ErrorResponse(401)

\* curation resolves the session first: without a session no call of the
\* news provider, no scoring and no image search is made, and the request
\* is answered with an error
C30_CurationAuthenticated ==
    (op = "curate_news" /\ Authenticate(authorization) # "ok" /\ pc # "idle") =>
        /\ news_calls = <<>>
        /\ batch_start = 0
        /\ image_start = 0
        /\ (pc = "done" => response.kind = "error")

\* the HTTPException(401) of the session lookup is raised inside the try
\* block of curate_news and leaves it through `except Exception` as a 500
C30_CurationUnknownToken500 ==
    /\ op = "curate_news"
    /\ pc = "done"
    /\ Authenticate(authorization) = "no_session"
    /\ response = ErrorResponse(500)

====
